---- MODULE Spec2Model ----
(***************************************************************************)
(* State-machine model of the batch image localisation tool:               *)
(*   - the desktop application's pipeline worker control (gui_app.py),     *)
(*   - the generation-backend client (comfyui_client.py).                  *)
(* Each part has its own group of variables and its own specification;     *)
(* a specification leaves the other groups at their idle values.           *)
(***************************************************************************)
EXTENDS Integers, Sequences, FiniteSets, TLC

VARIABLES
    \* ---- desktop application: MainWindow and its WorkerThreads
    task_file,      \* MainWindow.task_file is set
    btn,            \* enabled flag of the four start buttons
    running_btn,    \* MainWindow._running_btn ("none" or a mode)
    stop_btn,       \* stop button visible
    worker,         \* MainWindow.worker: 0 (None) or a thread id
    threads,        \* the WorkerThread objects created so far
    gui_events,     \* queued cross-thread signals awaiting the GUI thread
    gui_pc,         \* "idle", or "stop_wait" inside worker.wait(2000)
    \* ---- ComfyUIClient.process_image (the retry loop)
    pi_pc,          \* "head", "call" or "done"
    pi_max,         \* the max_retries argument
    pi_attempt,     \* the loop variable attempt
    pi_sleeps,      \* the time.sleep(wait_time) calls made, in order
    pi_outcomes,    \* outcome of each _process_image_once call, in order
    pi_result,      \* "none", "true", "false" or "raised"
    \* ---- ComfyUIClient._process_image_once (the attempt in progress)
    once_pc,        \* the step the attempt is at ("idle" between attempts)
    once_outputs,   \* images of the outputs mapping wait_for_completion returned
    once_cands,     \* the sorted candidates list
    once_idx,       \* position of the download loop in once_cands
    once_log,       \* download_image calls of this attempt: candidate, success
    once_last,      \* how the latest attempt ended
    once_steps,     \* the backend calls of the latest attempt: step, success
    \* ---- candidate ordering, as a function of the reported images
    so_pc,          \* "input" or "sorted"
    so_classes,     \* operation type of each workflow node (node_class_by_id)
    so_images,      \* the reported images, in the order the outputs list them
    so_sorted,      \* candidates after candidates.sort(...)
    \* ---- ComfyUIClient.check_connection
    cc_scheme,      \* self.scheme
    cc_base_url,    \* self.base_url
    cc_log,         \* the requests made: url, outcome, number of the call
    cc_calls,       \* check_connection calls made
    cc_switched_at, \* number of the call whose fallback switched to HTTP (0: none)
    cc_returns,     \* value returned by each call, in order
    \* ---- ComfyUIClient.wait_for_completion
    wf_pc,          \* "loop" or "done"
    wf_timeout,     \* self.timeout
    wf_elapsed,     \* time.time() - start_time, whole seconds
    wf_last,        \* history entry seen by the latest poll
    wf_last_at,     \* elapsed time at which the latest poll was started
    wf_prior,       \* an earlier poll already met the completion test
    wf_polls,       \* polls made
    wf_result,      \* "pending", or the value returned: "outputs", "empty", "none"
    wf_why,         \* which return statement ended the call
    \* ---- ComfyUIClient.prepare_workflow
    pw_template,    \* self.workflow_template, as loaded
    pw_prompt,      \* the prompt_text argument ("" for None)
    pw_calls,       \* prepare_workflow calls made
    pw_prev,        \* what the call before the latest returned
    pw_out,         \* what the latest call returned
    \* ---- WorkerThread.run (one pipeline worker)
    wk_mode,        \* self.mode
    wk_pc,          \* where run() is
    wk_tasks,       \* all_tasks of run_stage1 / run_manual_stage2
    wk_idx,         \* position of the stage-1 loop in all_tasks
    wk_should_stop, \* self.should_stop
    wk_results,     \* self.stage1_results, in insertion order
    wk_rows,        \* result_added emissions
    wk_calls,       \* tasks handed to comfyui_client.process_image
    wk_files,       \* stage-1 output files written
    wk_success,     \* success_count of run_stage1
    wk_oss,         \* oss_enabled
    wk_s2tasks,     \* the task list of the stage-2 loop
    wk_s2idx,       \* position of the stage-2 loop
    wk_report,      \* self.report_aggregator
    wk_counts,      \* self.folder_image_counts
    wk_actions,     \* stage-2 work done: compositing, upload, report write
    wk_begun,       \* tasks begun, each with should_stop as it was then
    wk_gate,        \* what "if not self.should_stop and self.stage1_results" saw
    \* ---- DriveUploader.create_folder
    dr_service,     \* self.service is set
    dr_parent_id,   \* self.parent_id
    dr_folders,     \* the folders in the Drive
    dr_made,        \* ids of the folders this uploader created
    dr_calls,       \* the create_folder calls made, with what each saw and returned
    \* ---- updater.is_newer
    vr_remote,      \* remote_version
    vr_local,       \* local_version
    vr_result,      \* what is_newer returned
    \* ---- the configuration page's backend address (MainWindow)
    cf_text,            \* comfyui_url_input.text()
    cf_test_ok,         \* _comfyui_test_ok
    cf_tested_url,      \* _comfyui_tested_url
    cf_save_enabled,    \* save_comfyui_btn.isEnabled()
    cf_test_enabled,    \* test_comfyui_btn.isEnabled()
    cf_worker,          \* _comfyui_test_worker: an index into cf_workers, 0 for None
    cf_workers,         \* every ComfyUIConnectionTestWorker started: url and thread state
    cf_queue,           \* check_finished signals emitted and not yet delivered
    cf_last,            \* the result _on_comfyui_test_finished handled last
    cf_writes,          \* the writes of config.ini, with the state each was made in
    \* ---- the console pipeline (main.main)
    cs_pc,              \* where main() is
    cs_tasks,           \* all_tasks
    cs_configured,      \* some task carries both comfyui and Processed image 1stage
    cs_idx,             \* the task the running loop is at
    cs_results,         \* stage1_results: the source paths that have an output
    cs_failures,        \* stage1_failures
    cs_report,          \* report_aggregator: [folder, col, link]
    cs_events,          \* what the run did, in order
    cs_bad,             \* a Stage 1 task failed or raised in this run
    cs_asked,           \* the operator has answered the prompt
    cs_answer,          \* what the operator typed
    cs_stale,           \* image files the stage-1 output directory held before the run
    cs_actual,          \* actual_output_files, -1 before the count
    cs_steps,            \* the backend calls of the run: [task, step], in order
    \* ---- upload_file (DriveUploader, OSSUploader)
    up_backend,         \* "drive" or "oss"
    up_ready,           \* self.service / self.bucket is set
    up_exists,          \* the file to upload can be opened
    up_pc,              \* "start", "loop", "done"
    up_attempt,         \* attempt
    up_sleeps,          \* the time.sleep calls, in order
    up_log,             \* the upload requests made: [attempt, outcome]
    up_result,          \* "none" while running, then "file", "None" or "raised"
    up_folder,          \* folder_id / folder_prefix: "" or "f"
    up_file,            \* the descriptor returned: its id
    up_public,           \* make_public succeeded for the stored file
    \* ---- UpdateCheckWorker
    uc_pc,              \* "start" or "done"
    uc_current,         \* self.current_version
    uc_status,          \* what requests.get gave: a status code, or how it failed
    uc_tag,             \* tag_name of the release
    uc_assets,          \* assets of the release: [name, url]
    uc_emitted,          \* the signals emitted: [signal, message, url]
    \* ---- DownloadWorker
    dl_pc,              \* "start", "loop" or "done"
    dl_chunks,          \* the chunks the response body comes in
    dl_written,         \* the chunks written to the file
    dl_cancelled,       \* self._cancelled
    dl_file,            \* the file at save_path: "absent", "old", "partial" or "complete"
    dl_emitted,         \* download_complete / download_failed signals emitted
    dl_progress,        \* progress signals emitted: the chunks downloaded
    dl_seen,            \* the flag was set when a chunk arrived
    dl_raised,          \* the transfer raised
    dl_kept,             \* os.remove failed in _cleanup
    dl_dialog,           \* the update dialog: "open", "rejected" or "accepted"
    dl_handled,          \* signals of the worker the dialog has handled
    dl_applied,          \* apply_update_and_restart was invoked
    dl_quit,             \* QApplication.quit() was called
    dl_inflight,         \* cancel was clicked while the thread was running
    \* ---- gallery dialog: re-process of the checked images
    gl_open,            \* TRUE while the gallery dialog is shown
    gl_image_paths,     \* _image_paths, the images of the grid
    gl_checkboxes,      \* _checkboxes, the check state of each cell
    gl_running,         \* a ReprocessWorkerThread is in flight (button disabled)
    gl_selected_outputs, \* selected_outputs of the worker in flight
    gl_completed,       \* a re-process run has completed
    gl_submitted,       \* the images submitted to the last completed run
    gl_touched,         \* a checkbox changed while the last run was in flight
    gl_message,          \* the last message box shown
    \* ---- generated update script (_ota_update.cmd)
    us_pc,              \* label the script is at
    us_alive,           \* the old process (pid) still exists
    us_c,               \* the counter c of the WAIT loop
    us_polls,           \* tasklist polls made
    us_sleeps,          \* one-second sleeps made in the WAIT loop
    us_absent,          \* a poll found no row for the pid
    us_log,             \* the file operations started, in order
    us_message,         \* the failure message shown, if any
    us_zip,              \* the downloaded archive still exists
    \* ---- ImageProcessor: the bottom caption of process_image
    ft_pc,              \* "start", "fit", "draw" or "done"
    ft_bottom_size,     \* the bottom_size argument
    ft_area_h,          \* height of the caption band
    ft_font_exists,     \* the font file exists
    ft_size,            \* the variable size of fit_text
    ft_tried,           \* the sizes tried, each with its outcome
    ft_font,            \* size of the font fit_text returned, 0 for None
    ft_lines,           \* the lines fit_text returned: "none", "wrapped" or "unwrapped"
    ft_drawn,            \* what process_image drew: "nothing", "wrapped" or "unwrapped"
    \* ---- run_stage1: collecting the tasks from the task file and the source root
    co_pc,              \* "off", "collect", "loop" or "done"
    co_groups,          \* distinct Folder Name values of the task file
    co_images,          \* the image files under the source root, by file-name stem
    co_group,           \* groups gone through so far
    co_all_tasks,       \* all_tasks: the image (its position in co_images) of each task
    co_idx,             \* position of the Stage 1 loop in all_tasks
    co_sent,             \* the images sent to the generation backend, in order
    \* ---- the saved backend address across an application restart
    rs_pc,              \* "off", "edit", "tested", "saved" or "restored"
    rs_url,             \* the URL in the field, as urlparse reads it
    rs_test_ok,         \* the connection test of this URL succeeded
    rs_config,          \* section ComfyUI of config.ini: Host and DefaultPort
    rs_field            \* the URL set into the field at the next start

guiVars == <<task_file, btn, running_btn, stop_btn, worker, threads, gui_events, gui_pc>>
piVars == <<pi_pc, pi_max, pi_attempt, pi_sleeps, pi_outcomes, pi_result,
            once_pc, once_outputs, once_cands, once_idx, once_log, once_last,
            once_steps>>
soVars == <<so_pc, so_classes, so_images, so_sorted>>
ccVars == <<cc_scheme, cc_base_url, cc_log, cc_calls, cc_switched_at, cc_returns>>
wfVars == <<wf_pc, wf_timeout, wf_elapsed, wf_last, wf_last_at, wf_prior, wf_polls,
            wf_result, wf_why>>

pwVars == <<pw_template, pw_prompt, pw_calls, pw_prev, pw_out>>

wkVars == <<wk_mode, wk_pc, wk_tasks, wk_idx, wk_should_stop, wk_results, wk_rows,
            wk_calls, wk_files, wk_success, wk_oss, wk_s2tasks, wk_s2idx,
            wk_report, wk_counts, wk_actions, wk_begun, wk_gate>>

drVars == <<dr_service, dr_parent_id, dr_folders, dr_made, dr_calls>>

vrVars == <<vr_remote, vr_local, vr_result>>

cfVars == <<cf_text, cf_test_ok, cf_tested_url, cf_save_enabled, cf_test_enabled,
           cf_worker, cf_workers, cf_queue, cf_last, cf_writes>>

csLog == <<cs_asked, cs_answer, cs_stale, cs_actual, cs_steps>>

csVars == <<cs_pc, cs_tasks, cs_configured, cs_idx, cs_results, cs_failures,
           cs_report, cs_events, cs_bad, csLog>>

upVars == <<up_backend, up_ready, up_exists, up_pc, up_attempt, up_sleeps, up_log,
           up_result, up_folder, up_file, up_public>>

ucVars == <<uc_pc, uc_current, uc_status, uc_tag, uc_assets, uc_emitted>>

dlVars == <<dl_pc, dl_chunks, dl_written, dl_cancelled, dl_file, dl_emitted, dl_progress, dl_seen, dl_raised, dl_kept,
           dl_dialog, dl_handled, dl_applied, dl_quit, dl_inflight>>

dlDialog == <<dl_dialog, dl_handled, dl_applied, dl_quit, dl_inflight>>

glVars == <<gl_open, gl_image_paths, gl_checkboxes, gl_running, gl_selected_outputs, gl_completed, gl_submitted, gl_touched, gl_message>>

usVars == <<us_pc, us_alive, us_c, us_polls, us_sleeps, us_absent, us_log, us_message, us_zip>>

ftVars == <<ft_pc, ft_bottom_size, ft_area_h, ft_font_exists, ft_size, ft_tried, ft_font, ft_lines, ft_drawn>>

coVars == <<co_pc, co_groups, co_images, co_group, co_all_tasks, co_idx, co_sent>>

rsVars == <<rs_pc, rs_url, rs_test_ok, rs_config, rs_field>>

vars == <<guiVars, piVars, soVars, ccVars, wfVars, pwVars, wkVars, drVars, vrVars,
          cfVars, csVars, upVars, ucVars, dlVars, glVars, usVars, ftVars, coVars, rsVars>>

\* The groups a specification of one part leaves untouched.
notGui == <<piVars, soVars, ccVars, wfVars, pwVars, wkVars, drVars, vrVars, cfVars, csVars, upVars, ucVars, dlVars, glVars, usVars, ftVars, coVars, rsVars>>
notPi == <<guiVars, soVars, ccVars, wfVars, pwVars, wkVars, drVars, vrVars, cfVars, csVars, upVars, ucVars, dlVars, glVars, usVars, ftVars, coVars, rsVars>>
notSo == <<guiVars, piVars, ccVars, wfVars, pwVars, wkVars, drVars, vrVars, cfVars, csVars, upVars, ucVars, dlVars, glVars, usVars, ftVars, coVars, rsVars>>
notCc == <<guiVars, piVars, soVars, wfVars, pwVars, wkVars, drVars, vrVars, cfVars, csVars, upVars, ucVars, dlVars, glVars, usVars, ftVars, coVars, rsVars>>
notWf == <<guiVars, piVars, soVars, ccVars, pwVars, wkVars, drVars, vrVars, cfVars, csVars, upVars, ucVars, dlVars, glVars, usVars, ftVars, coVars, rsVars>>
notPw == <<guiVars, piVars, soVars, ccVars, wfVars, wkVars, drVars, vrVars, cfVars, csVars, upVars, ucVars, dlVars, glVars, usVars, ftVars, coVars, rsVars>>
notWk == <<guiVars, piVars, soVars, ccVars, wfVars, pwVars, drVars, vrVars, cfVars, csVars, upVars, ucVars, dlVars, glVars, usVars, ftVars, coVars, rsVars>>
notDr == <<guiVars, piVars, soVars, ccVars, wfVars, pwVars, wkVars, vrVars, cfVars, csVars, upVars, ucVars, dlVars, glVars, usVars, ftVars, coVars, rsVars>>
notVr == <<guiVars, piVars, soVars, ccVars, wfVars, pwVars, wkVars, drVars, cfVars, csVars, upVars, ucVars, dlVars, glVars, usVars, ftVars, coVars, rsVars>>
notCf == <<guiVars, piVars, soVars, ccVars, wfVars, pwVars, wkVars, drVars, vrVars, csVars, upVars, ucVars, dlVars, glVars, usVars, ftVars, coVars, rsVars>>
notCs == <<guiVars, piVars, soVars, ccVars, wfVars, pwVars, wkVars, drVars, vrVars, cfVars, upVars, ucVars, dlVars, glVars, usVars, ftVars, coVars, rsVars>>
notUp == <<guiVars, piVars, soVars, ccVars, wfVars, pwVars, wkVars, drVars, vrVars, cfVars, csVars, ucVars, dlVars, glVars, usVars, ftVars, coVars, rsVars>>
notUc == <<guiVars, piVars, soVars, ccVars, wfVars, pwVars, wkVars, drVars, vrVars, cfVars, csVars, upVars, dlVars, glVars, usVars, ftVars, coVars, rsVars>>
notDl == <<guiVars, piVars, soVars, ccVars, wfVars, pwVars, wkVars, drVars, vrVars, cfVars, csVars, upVars, ucVars, glVars, usVars, ftVars, coVars, rsVars>>
notGl == <<guiVars, piVars, soVars, ccVars, wfVars, pwVars, wkVars, drVars, vrVars, cfVars, csVars, upVars, ucVars, dlVars, usVars, ftVars, coVars, rsVars>>
notUs == <<guiVars, piVars, soVars, ccVars, wfVars, pwVars, wkVars, drVars, vrVars, cfVars, csVars, upVars, ucVars, dlVars, glVars, ftVars, coVars, rsVars>>
notFt == <<guiVars, piVars, soVars, ccVars, wfVars, pwVars, wkVars, drVars, vrVars, cfVars, csVars, upVars, ucVars, dlVars, glVars, usVars, coVars, rsVars>>
notCo == <<guiVars, piVars, soVars, ccVars, wfVars, pwVars, wkVars, drVars, vrVars, cfVars, csVars, upVars, ucVars, dlVars, glVars, usVars, ftVars, rsVars>>
notRs == <<guiVars, piVars, soVars, ccVars, wfVars, pwVars, wkVars, drVars, vrVars, cfVars, csVars, upVars, ucVars, dlVars, glVars, usVars, ftVars, coVars>>

\* Idle values: the state of a part that a specification does not exercise.
GuiIdle ==
    /\ task_file = FALSE /\ btn = <<>> /\ running_btn = "none" /\ stop_btn = FALSE
    /\ worker = 0 /\ threads = <<>> /\ gui_events = <<>> /\ gui_pc = "off"
PiIdle ==
    /\ pi_pc = "off" /\ pi_max = 0 /\ pi_attempt = 0 /\ pi_sleeps = <<>>
    /\ pi_outcomes = <<>> /\ pi_result = "none"
    /\ once_pc = "off" /\ once_outputs = <<>> /\ once_cands = <<>> /\ once_idx = 0
    /\ once_log = <<>> /\ once_last = "none" /\ once_steps = <<>>
SoIdle ==
    /\ so_pc = "off" /\ so_classes = <<>> /\ so_images = <<>> /\ so_sorted = <<>>
CcIdle ==
    /\ cc_scheme = "none" /\ cc_base_url = "none" /\ cc_log = <<>> /\ cc_calls = 0
    /\ cc_switched_at = 0 /\ cc_returns = <<>>
WfIdle ==
    /\ wf_pc = "off" /\ wf_timeout = 0 /\ wf_elapsed = 0 /\ wf_last = <<>>
    /\ wf_last_at = 0 /\ wf_prior = FALSE /\ wf_polls = 0 /\ wf_result = "pending"
    /\ wf_why = "none"
PwIdle ==
    /\ pw_template = <<>> /\ pw_prompt = "" /\ pw_calls = 0 /\ pw_prev = <<>>
    /\ pw_out = <<>>
WkIdle ==
    /\ wk_mode = "none" /\ wk_pc = "off" /\ wk_tasks = <<>> /\ wk_idx = 0
    /\ wk_should_stop = FALSE /\ wk_results = <<>> /\ wk_rows = <<>>
    /\ wk_calls = <<>> /\ wk_files = {} /\ wk_success = 0 /\ wk_oss = FALSE
    /\ wk_s2tasks = <<>> /\ wk_s2idx = 0 /\ wk_report = <<>> /\ wk_counts = <<>>
    /\ wk_actions = <<>> /\ wk_begun = <<>> /\ wk_gate = <<>>
DrIdle ==
    /\ dr_service = FALSE /\ dr_parent_id = "None" /\ dr_folders = {}
    /\ dr_made = {} /\ dr_calls = <<>>
VrIdle == vr_remote = <<>> /\ vr_local = <<>> /\ vr_result = "off"
CfIdle ==
    /\ cf_text = <<>> /\ cf_test_ok = FALSE /\ cf_tested_url = <<>>
    /\ cf_save_enabled = FALSE /\ cf_test_enabled = FALSE
    /\ cf_worker = 0 /\ cf_workers = <<>> /\ cf_queue = <<>>
    /\ cf_last = [present |-> FALSE, ok |-> FALSE, url |-> <<>>]
    /\ cf_writes = <<>>
CsIdle ==
    /\ cs_pc = "off" /\ cs_tasks = <<>> /\ cs_configured = FALSE /\ cs_idx = 0
    /\ cs_results = {} /\ cs_failures = <<>> /\ cs_report = {}
    /\ cs_events = <<>> /\ cs_bad = FALSE
    /\ cs_asked = FALSE /\ cs_answer = <<>> /\ cs_stale = 0 /\ cs_actual = -1
    /\ cs_steps = <<>>
UpIdle ==
    /\ up_backend = "off" /\ up_ready = FALSE /\ up_exists = FALSE /\ up_pc = "off"
    /\ up_attempt = 0 /\ up_sleeps = <<>> /\ up_log = <<>> /\ up_result = "none"
    /\ up_folder = "" /\ up_file = "" /\ up_public = FALSE
UcIdle ==
    /\ uc_pc = "off" /\ uc_current = <<>> /\ uc_status = "off" /\ uc_tag = <<>>
    /\ uc_assets = <<>> /\ uc_emitted = <<>>
DlIdle ==
    /\ dl_pc = "off" /\ dl_chunks = 0 /\ dl_written = 0 /\ dl_cancelled = FALSE
    /\ dl_file = "absent" /\ dl_emitted = <<>> /\ dl_progress = <<>>
    /\ dl_seen = FALSE /\ dl_raised = FALSE /\ dl_kept = FALSE
    /\ dl_dialog = "off" /\ dl_handled = 0 /\ dl_applied = FALSE /\ dl_quit = FALSE
    /\ dl_inflight = FALSE
GlIdle ==
    /\ gl_open = FALSE /\ gl_image_paths = <<>> /\ gl_checkboxes = <<>>
    /\ gl_running = FALSE /\ gl_selected_outputs = <<>> /\ gl_completed = FALSE
    /\ gl_submitted = <<>> /\ gl_touched = FALSE /\ gl_message = ""
UsIdle ==
    /\ us_pc = "off" /\ us_alive = FALSE /\ us_c = 0 /\ us_polls = 0 /\ us_sleeps = 0
    /\ us_absent = FALSE /\ us_log = <<>> /\ us_message = "" /\ us_zip = FALSE
FtIdle ==
    /\ ft_pc = "off" /\ ft_bottom_size = 0 /\ ft_area_h = 0 /\ ft_font_exists = FALSE
    /\ ft_size = 0 /\ ft_tried = <<>> /\ ft_font = 0 /\ ft_lines = "none"
    /\ ft_drawn = "nothing"
CoIdle ==
    /\ co_pc = "off" /\ co_groups = 0 /\ co_images = <<>> /\ co_group = 0
    /\ co_all_tasks = <<>> /\ co_idx = 0 /\ co_sent = <<>>
RsIdle ==
    /\ rs_pc = "off" /\ rs_url = [scheme |-> "", host |-> "", port |-> 0]
    /\ rs_test_ok = FALSE /\ rs_config = [Host |-> "", DefaultPort |-> 0]
    /\ rs_field = [scheme |-> "", host |-> "", port |-> 0]

-----------------------------------------------------------------------------
(***************************************************************************)
(* Desktop application: start buttons, stop button, pipeline workers.      *)
(***************************************************************************)

\* Bounds of the model.
MaxWorkers == 2
MaxTasks == 1

Modes == {"stage1", "stage2", "full_auto", "manual_stage2"}

NoThread ==
    [mode |-> "none", pc |-> "unborn", busy |-> FALSE, left |-> 0,
     should_stop |-> FALSE, stage1_results |-> FALSE]

\* QThread.isRunning(): run() has been entered and has not returned.
IsRunning(w) == threads[w].pc \notin {"unborn", "finished"}

RunningWorkers == {w \in 1..MaxWorkers : IsRunning(w)}

\* bool(self.worker.stage1_results) of the current worker object.
WorkerHasResults(wk, th) == wk # 0 /\ th[wk].stage1_results

\* MainWindow.set_buttons_enabled(enabled), evaluated against worker wk.
SetButtonsEnabled(enabled, tf, wk, th) ==
    [m \in Modes |->
        IF m = "stage2" THEN enabled /\ WorkerHasResults(wk, th)
        ELSE enabled /\ tf]

\* MainWindow._set_running_btn(b) applied to the button flags bs.
SetRunningBtn(bs, old, b) ==
    LET cleared == IF old # "none" THEN [bs EXCEPT ![old] = FALSE] ELSE bs
    IN  IF b # "none" THEN [cleared EXCEPT ![b] = TRUE] ELSE cleared

\* MainWindow.browse_file with a file chosen: the start buttons are enabled.
BrowseFile ==
    /\ UNCHANGED notGui
    /\ gui_pc = "idle"
    /\ task_file' = TRUE
    /\ btn' = [btn EXCEPT !["stage1"] = TRUE, !["full_auto"] = TRUE,
                          !["manual_stage2"] = TRUE]
    /\ UNCHANGED <<running_btn, stop_btn, worker, threads, gui_events, gui_pc>>

\* The first stage a worker of the given mode executes.
FirstStage(mode) ==
    CASE mode = "stage1" -> "stage1"
      [] mode = "full_auto" -> "stage1"
      [] mode = "stage2" -> "stage2"
      [] OTHER -> "manual"

\* MainWindow.start_worker(mode): buttons off, running button highlighted
\* (and enabled), a new WorkerThread replaces self.worker and is started.
StartWorker(mode) ==
    /\ UNCHANGED notGui
    /\ worker < MaxWorkers
    /\ LET off == SetButtonsEnabled(FALSE, task_file, worker, threads)
           new == worker + 1
           keep == mode = "stage2" /\ WorkerHasResults(worker, threads)
       IN  /\ btn' = SetRunningBtn(off, running_btn, mode)
           /\ running_btn' = mode
           /\ stop_btn' = TRUE
           /\ worker' = new
           /\ \E n \in 0..MaxTasks :
                threads' = [threads EXCEPT ![new] =
                    [mode |-> mode, pc |-> FirstStage(mode), busy |-> FALSE,
                     left |-> n, should_stop |-> FALSE,
                     stage1_results |-> keep]]
    /\ UNCHANGED <<task_file, gui_events, gui_pc>>

\* Click on "stage 1": MainWindow.run_stage1.
ClickStage1 ==
    /\ gui_pc = "idle" /\ btn["stage1"] /\ task_file
    /\ StartWorker("stage1")

\* Click on "stage 2": MainWindow.run_stage2 (warns and returns without results).
ClickStage2 ==
    /\ gui_pc = "idle" /\ btn["stage2"]
    /\ WorkerHasResults(worker, threads)
    /\ StartWorker("stage2")

\* Click on "full auto": MainWindow.run_full_auto, old report check passed.
ClickFullAuto ==
    /\ gui_pc = "idle" /\ btn["full_auto"] /\ task_file
    /\ StartWorker("full_auto")

\* Click on "manual stage 2": MainWindow.run_manual_stage2, folder chosen.
ClickManualStage2 ==
    /\ gui_pc = "idle" /\ btn["manual_stage2"] /\ task_file
    /\ StartWorker("manual_stage2")

\* The task loop's head: "if self.should_stop: return", else the task begins.
WorkerTaskBegin(w) ==
    /\ UNCHANGED notGui
    /\ IsRunning(w) /\ ~threads[w].busy
    /\ threads[w].left > 0 /\ ~threads[w].should_stop
    /\ threads' = [threads EXCEPT ![w].busy = TRUE]
    /\ UNCHANGED <<task_file, btn, running_btn, stop_btn, worker, gui_events, gui_pc>>

\* The task in progress ends; a stage-1 task that succeeded adds a result.
WorkerTaskEnd(w) ==
    /\ UNCHANGED notGui
    /\ IsRunning(w) /\ threads[w].busy
    /\ \E ok \in BOOLEAN :
        threads' = [threads EXCEPT
            ![w].busy = FALSE,
            ![w].left = @ - 1,
            ![w].stage1_results = @ \/ (ok /\ threads[w].pc = "stage1")]
    /\ UNCHANGED <<task_file, btn, running_btn, stop_btn, worker, gui_events, gui_pc>>

\* run_stage1 / run_stage2 / run_manual_stage2 return early (unreadable task
\* file, missing source path, backend unreachable, an exception): run() ends.
WorkerAbort(w) ==
    /\ UNCHANGED notGui
    /\ IsRunning(w) /\ ~threads[w].busy
    /\ Len(gui_events) < 2 * MaxWorkers
    /\ threads' = [threads EXCEPT ![w].pc = "finished"]
    /\ gui_events' = Append(gui_events, <<"finished", w>>)
    /\ UNCHANGED <<task_file, btn, running_btn, stop_btn, worker, gui_pc>>

\* The stop flag is seen at the loop head: the stage returns, run() ends.
WorkerStopped(w) ==
    /\ UNCHANGED notGui
    /\ IsRunning(w) /\ ~threads[w].busy
    /\ threads[w].left > 0 /\ threads[w].should_stop
    /\ Len(gui_events) < 2 * MaxWorkers
    /\ threads' = [threads EXCEPT ![w].pc = "finished"]
    /\ gui_events' = Append(gui_events, <<"finished", w>>)
    /\ UNCHANGED <<task_file, btn, running_btn, stop_btn, worker, gui_pc>>

\* The task loop is exhausted: stage_completed is emitted; a full_auto worker
\* goes on to stage 2 when not stopped and stage 1 left results, else run() ends.
WorkerStageEnd(w) ==
    /\ UNCHANGED notGui
    /\ IsRunning(w) /\ ~threads[w].busy /\ threads[w].left = 0
    /\ Len(gui_events) < 2 * MaxWorkers - 1
    /\ LET t == threads[w]
           done == <<"stage_completed", t.pc>>
           goOn == /\ t.mode = "full_auto" /\ t.pc = "stage1"
                   /\ ~t.should_stop /\ t.stage1_results
       IN  IF goOn
           THEN /\ \E n \in 1..MaxTasks :
                     threads' = [threads EXCEPT ![w].pc = "stage2", ![w].left = n]
                /\ gui_events' = Append(gui_events, done)
           ELSE /\ threads' = [threads EXCEPT ![w].pc = "finished"]
                /\ gui_events' = gui_events \o <<done, <<"finished", w>>>>
    /\ UNCHANGED <<task_file, btn, running_btn, stop_btn, worker, gui_pc>>

\* The GUI thread handles the oldest queued signal:
\* on_stage_completed("stage1") enables the stage-2 button;
\* on_worker_finished clears the running button and re-enables the buttons.
GuiDeliver ==
    /\ UNCHANGED notGui
    /\ gui_pc = "idle" /\ gui_events # <<>>
    /\ LET e == Head(gui_events)
       IN  /\ gui_events' = Tail(gui_events)
           /\ IF e[1] = "stage_completed"
              THEN /\ btn' = IF e[2] = "stage1"
                             THEN [btn EXCEPT !["stage2"] = TRUE] ELSE btn
                   /\ UNCHANGED <<running_btn, stop_btn>>
              ELSE /\ stop_btn' = FALSE
                   /\ running_btn' = "none"
                   /\ btn' = SetButtonsEnabled(TRUE, task_file, worker, threads)
    /\ UNCHANGED <<task_file, worker, threads, gui_pc>>

\* Click on stop: MainWindow.stop_processing up to worker.wait(2000).
StopBegin ==
    /\ UNCHANGED notGui
    /\ gui_pc = "idle" /\ stop_btn
    /\ worker # 0 /\ IsRunning(worker)
    /\ threads' = [threads EXCEPT ![worker].should_stop = TRUE]
    /\ gui_pc' = "stop_wait"
    /\ UNCHANGED <<task_file, btn, running_btn, stop_btn, worker, gui_events>>

\* worker.wait(2000) returns, because the thread ended or after two seconds
\* with the thread still busy; the indicators are cleared, the buttons enabled.
StopEnd ==
    /\ UNCHANGED notGui
    /\ gui_pc = "stop_wait"
    /\ gui_pc' = "idle"
    /\ stop_btn' = FALSE
    /\ running_btn' = "none"
    /\ btn' = SetButtonsEnabled(TRUE, task_file, worker, threads)
    /\ UNCHANGED <<task_file, worker, threads, gui_events>>

GuiInit ==
    /\ task_file \in BOOLEAN
    /\ btn = [m \in Modes |-> IF m = "stage2" THEN FALSE ELSE task_file]
    /\ running_btn = "none"
    /\ stop_btn = FALSE
    /\ worker = 0
    /\ threads = [w \in 1..MaxWorkers |-> NoThread]
    /\ gui_events = <<>>
    /\ gui_pc = "idle"
    /\ PiIdle /\ SoIdle /\ CcIdle /\ WfIdle /\ PwIdle /\ WkIdle /\ DrIdle /\ VrIdle /\ CfIdle /\ CsIdle /\ UpIdle /\ UcIdle /\ DlIdle /\ GlIdle /\ UsIdle /\ FtIdle /\ CoIdle /\ RsIdle

GuiNext ==
    \/ BrowseFile
    \/ ClickStage1
    \/ ClickStage2
    \/ ClickFullAuto
    \/ ClickManualStage2
    \/ \E w \in 1..MaxWorkers : WorkerTaskBegin(w)
    \/ \E w \in 1..MaxWorkers : WorkerTaskEnd(w)
    \/ \E w \in 1..MaxWorkers : WorkerAbort(w)
    \/ \E w \in 1..MaxWorkers : WorkerStopped(w)
    \/ \E w \in 1..MaxWorkers : WorkerStageEnd(w)
    \/ GuiDeliver
    \/ StopBegin
    \/ StopEnd

SpecGui == GuiInit /\ [][GuiNext]_vars

\* C1: at most one pipeline WorkerThread is executing at any time.
C1_AtMostOneWorker == Cardinality(RunningWorkers) <= 1

-----------------------------------------------------------------------------
(***************************************************************************)
(* ComfyUIClient._process_image_once, step 6: the order in which the       *)
(* reported output images are tried.                                       *)
(***************************************************************************)

\* Longest list of reported images explored.
MaxImages == 3

\* Node ids as the outputs mapping spells them; "x" is not a number.
NodeIds == {"3", "5", "9", "x"}

\* int(node_id) for the ids that parse.
NumericValue == ("3" :> 3) @@ ("5" :> 5) @@ ("9" :> 9)

ImgTypes == {"output", "temp", "input", "other"}

\* type_priority.get(img_type, 9)
TypePriority(img_type) ==
    CASE img_type = "output" -> 0
      [] img_type = "temp" -> 1
      [] img_type = "input" -> 2
      [] OTHER -> 9

\* node_rank(node_class)
NodeRank(node_class) ==
    IF node_class = "SaveImage" THEN 0
    ELSE IF node_class = "PreviewImage" THEN 3
    ELSE IF node_class # "" THEN 1
    ELSE 2

\* C4 mutant: smaller node ids first.
NodeOrderAscending(node_id) ==
    IF node_id \in DOMAIN NumericValue THEN NumericValue[node_id] ELSE 0

\* node_order = -int(node_id), 0 when the id does not parse.
NodeOrder(node_id) ==
    IF node_id \in DOMAIN NumericValue THEN 0 - NumericValue[node_id] ELSE 0

\* node_class_by_id.get(str(node_id), "")
ClassOf(classes, node_id) ==
    IF node_id \in DOMAIN classes THEN classes[node_id] ELSE ""

\* The dictionary appended to candidates for one image.
Candidate(img, classes) ==
    [node_id |-> img.node_id,
     img_type |-> img.img_type,
     node_class |-> ClassOf(classes, img.node_id),
     priority |-> TypePriority(img.img_type),
     class_rank |-> NodeRank(ClassOf(classes, img.node_id)),
     node_order |-> NodeOrder(img.node_id)]

\* The loop over outputs.items(): images without a file name are skipped.
CollectCandidates(images, classes) ==
    LET named == SelectSeq(images, LAMBDA img : img.named)
    IN  [i \in 1..Len(named) |-> Candidate(named[i], classes)]

\* Tuple comparison of the sort key (priority, class_rank, node_order).
KeyLE(a, b) ==
    \/ a.priority < b.priority
    \/ /\ a.priority = b.priority
       /\ \/ a.class_rank < b.class_rank
          \/ /\ a.class_rank = b.class_rank
             /\ a.node_order <= b.node_order

\* One insertion of a stable sort: c goes after every element not above it.
InsertCandidate(c, sorted) ==
    LET n == Cardinality({i \in 1..Len(sorted) : KeyLE(sorted[i], c)})
    IN  SubSeq(sorted, 1, n) \o <<c>> \o SubSeq(sorted, n + 1, Len(sorted))

RECURSIVE SortCandidates(_)
\* candidates.sort(key=...): ascending and stable.
SortCandidates(cands) ==
    IF cands = <<>> THEN <<>>
    ELSE InsertCandidate(cands[Len(cands)],
                         SortCandidates(SubSeq(cands, 1, Len(cands) - 1)))

\* Workflows explored: the operation type of each node ("" or no entry: no
\* type known for the node).
ClassMaps ==
    { ("3" :> "SaveImage") @@ ("5" :> "PreviewImage") @@ ("9" :> "SaveImage"),
      ("3" :> "PreviewImage") @@ ("5" :> "VAEDecode") @@ ("x" :> "SaveImage"),
      ("3" :> "VAEDecode") @@ ("5" :> "VAEDecode") @@ ("9" :> "") @@ ("x" :> "PreviewImage") }

\* Image entries explored; one of them has no file name.
ImagePool ==
    [node_id : NodeIds, img_type : ImgTypes, named : {TRUE}]
        \cup {[node_id |-> "3", img_type |-> "output", named |-> FALSE]}

\* Sequences over S of length 0..n.
SeqsUpTo(S, n) == UNION {[1..k -> S] : k \in 0..n}

\* The images of one node are listed together (outputs is keyed by node id).
GroupedByNode(images) ==
    \A i, j, k \in 1..Len(images) :
        (i < j /\ j < k /\ images[i].node_id = images[k].node_id)
            => images[j].node_id = images[i].node_id

SoInit ==
    /\ so_pc = "input"
    /\ so_classes \in ClassMaps
    /\ so_images \in {s \in SeqsUpTo(ImagePool, MaxImages) : GroupedByNode(s)}
    /\ so_sorted = <<>>
    /\ GuiIdle /\ PiIdle /\ CcIdle /\ WfIdle /\ PwIdle /\ WkIdle /\ DrIdle /\ VrIdle /\ CfIdle /\ CsIdle /\ UpIdle /\ UcIdle /\ DlIdle /\ GlIdle /\ UsIdle /\ FtIdle /\ CoIdle /\ RsIdle

\* Candidates are collected from the outputs and sorted.
SoSort ==
    /\ so_pc = "input"
    /\ so_sorted' = SortCandidates(CollectCandidates(so_images, so_classes))
    /\ so_pc' = "sorted"
    /\ UNCHANGED <<so_classes, so_images>>
    /\ UNCHANGED notSo

SoNext == SoSort

SpecSort == SoInit /\ [][SoNext]_vars

\* The claim's own ranks of an image type and of a node class.
C4_TypeRank(t) == IF t = "output" THEN 0 ELSE IF t = "temp" THEN 1
                  ELSE IF t = "input" THEN 2 ELSE 9
C4_ClassRank(c) == IF c = "SaveImage" THEN 0 ELSE IF c = "PreviewImage" THEN 3
                   ELSE IF c = "" THEN 2 ELSE 1
C4_Numeric(id) == id \in {"3", "5", "9"}
C4_Number(id) == IF id = "3" THEN 3 ELSE IF id = "5" THEN 5 ELSE 9
C4_Count(seq, id, t) ==
    Cardinality({i \in 1..Len(seq) : seq[i].node_id = id /\ seq[i].img_type = t})

\* C4: the download order holds exactly the reported images that have a file
\* name, ascending by (type priority, node-class rank), and within equal type
\* and class the larger numeric node id first; (output, PreviewImage, 5),
\* (output, SaveImage, 3), (temp, SaveImage, 9) come out as 3, 5, 9.
C4_DownloadOrder ==
    so_pc = "sorted" =>
        LET named == SelectSeq(so_images, LAMBDA img : img.named)
            tr(i) == C4_TypeRank(so_sorted[i].img_type)
            cr(i) == C4_ClassRank(ClassOf(so_classes, so_sorted[i].node_id))
            id(i) == so_sorted[i].node_id
        IN  /\ Len(so_sorted) = Len(named)
            /\ \A n \in NodeIds, t \in ImgTypes :
                    C4_Count(so_sorted, n, t) = C4_Count(named, n, t)
            /\ \A i, j \in 1..Len(so_sorted) :
                    i < j =>
                        /\ tr(i) <= tr(j)
                        /\ tr(i) = tr(j) => cr(i) <= cr(j)
                        /\ (tr(i) = tr(j) /\ cr(i) = cr(j)
                                /\ C4_Numeric(id(i)) /\ C4_Numeric(id(j)))
                            => C4_Number(id(i)) >= C4_Number(id(j))
            /\ ( /\ Len(named) = 3
                 /\ ClassOf(so_classes, "3") = "SaveImage"
                 /\ ClassOf(so_classes, "5") = "PreviewImage"
                 /\ ClassOf(so_classes, "9") = "SaveImage"
                 /\ C4_Count(named, "5", "output") = 1
                 /\ C4_Count(named, "3", "output") = 1
                 /\ C4_Count(named, "9", "temp") = 1 )
                => <<id(1), id(2), id(3)>> = <<"3", "5", "9">>

C4_Witness ==
    /\ so_pc = "sorted"
    /\ so_images = << [node_id |-> "5", img_type |-> "output", named |-> TRUE],
                      [node_id |-> "3", img_type |-> "output", named |-> TRUE],
                      [node_id |-> "9", img_type |-> "temp", named |-> TRUE] >>
    /\ so_classes = ("3" :> "SaveImage") @@ ("5" :> "PreviewImage") @@ ("9" :> "SaveImage")
    /\ Len(so_sorted) = 3
    /\ so_sorted[1].node_id = "3" /\ so_sorted[2].node_id = "5" /\ so_sorted[3].node_id = "9"

-----------------------------------------------------------------------------
(***************************************************************************)
(* ComfyUIClient.process_image: the retry loop, and each attempt           *)
(* (_process_image_once) step by step.                                     *)
(***************************************************************************)

\* Largest max_retries argument explored.
MaxRetries == 3

\* Longest list of images one job reports in this part.
MaxOutputs == 2

\* C3 mutant: one iteration too many.
InRangeInclusive(attempt, max_retries) == attempt <= max_retries

\* for attempt in range(max_retries): the loop goes on.
InRange(attempt, max_retries) == attempt < max_retries

\* C2 mutant: a constant pause instead of a growing one.
WaitTimeConstant(attempt) == 5

\* wait_time = 5 * attempt
WaitTime(attempt) == 5 * attempt

\* The workflow submitted in this part: node 3 saves, node 5 previews, node 9 saves.
JobClasses == ("3" :> "SaveImage") @@ ("5" :> "PreviewImage") @@ ("9" :> "SaveImage")

\* Images a job of this part can report.
JobImagePool ==
    { [node_id |-> "5", img_type |-> "output", named |-> TRUE],
      [node_id |-> "3", img_type |-> "output", named |-> TRUE],
      [node_id |-> "9", img_type |-> "temp", named |-> TRUE],
      [node_id |-> "9", img_type |-> "temp", named |-> FALSE] }

PiInit ==
    /\ pi_pc = "head"
    /\ pi_max \in 0..MaxRetries
    /\ pi_attempt = 0
    /\ pi_sleeps = <<>>
    /\ pi_outcomes = <<>>
    /\ pi_result = "none"
    /\ once_pc = "idle" /\ once_outputs = <<>> /\ once_cands = <<>> /\ once_idx = 0
    /\ once_log = <<>> /\ once_last = "none" /\ once_steps = <<>>
    /\ GuiIdle /\ SoIdle /\ CcIdle /\ WfIdle /\ PwIdle /\ WkIdle /\ DrIdle /\ VrIdle /\ CfIdle /\ CsIdle /\ UpIdle /\ UcIdle /\ DlIdle /\ GlIdle /\ UsIdle /\ FtIdle /\ CoIdle /\ RsIdle

\* Loop head of an iteration: "if attempt > 0: time.sleep(5 * attempt)", then
\* _process_image_once is entered.
PiLoopHead ==
    /\ pi_pc = "head" /\ InRange(pi_attempt, pi_max)
    /\ pi_sleeps' = IF pi_attempt > 0
                     THEN Append(pi_sleeps, WaitTime(pi_attempt)) ELSE pi_sleeps
    /\ pi_pc' = "call"
    /\ once_pc' = "check"
    /\ once_outputs' = <<>> /\ once_cands' = <<>> /\ once_idx' = 0 /\ once_log' = <<>>
    /\ once_steps' = <<>>
    /\ UNCHANGED <<pi_max, pi_attempt, pi_outcomes, pi_result, once_last>>
    /\ UNCHANGED notPi

\* _process_image_once returns True: process_image returns True.
OnceReturnsTrue ==
    /\ pi_outcomes' = Append(pi_outcomes, "ok")
    /\ pi_result' = "true" /\ pi_pc' = "done" /\ once_pc' = "idle"
    /\ once_last' = "ok"
    /\ UNCHANGED <<pi_max, pi_attempt, pi_sleeps>>

\* _process_image_once returns False at the given step: next iteration.
OnceReturnsFalse(step) ==
    /\ pi_outcomes' = Append(pi_outcomes, "fail")
    /\ pi_attempt' = pi_attempt + 1 /\ pi_pc' = "head" /\ once_pc' = "idle"
    /\ once_last' = step
    /\ UNCHANGED <<pi_max, pi_sleeps, pi_result>>

\* "if not result: return False" after steps 1 to 4
RunsNext(result) == result

\* Steps 1 to 4 (check_connection, upload_image, prepare_workflow,
\* queue_prompt): a falsy result returns False, else the next step runs.
OnceStep(step, next) ==
    /\ pi_pc = "call" /\ once_pc = step
    /\ \E ok \in BOOLEAN :
        /\ once_steps' = Append(once_steps, [step |-> step, ok |-> ok])
        /\ IF RunsNext(ok)
           THEN /\ once_pc' = next
                /\ UNCHANGED <<pi_pc, pi_max, pi_attempt, pi_sleeps, pi_outcomes,
                               pi_result, once_last>>
           ELSE OnceReturnsFalse(step)
    /\ UNCHANGED <<once_outputs, once_cands, once_idx, once_log>>
    /\ UNCHANGED notPi

OnceCheck == OnceStep("check", "upload")
OnceUpload == OnceStep("upload", "prepare")
OncePrepare == OnceStep("prepare", "queue")
OnceQueue == OnceStep("queue", "wait")

\* prepare_workflow raises on a malformed template: nothing in
\* _process_image_once or process_image catches it.
OncePrepareRaises ==
    /\ pi_pc = "call" /\ once_pc = "prepare"
    /\ pi_outcomes' = Append(pi_outcomes, "raise")
    /\ pi_result' = "raised" /\ pi_pc' = "done" /\ once_pc' = "idle"
    /\ once_last' = "raise"
    /\ once_steps' = Append(once_steps, [step |-> "prepare", ok |-> FALSE])
    /\ UNCHANGED <<pi_max, pi_attempt, pi_sleeps>>
    /\ UNCHANGED <<once_outputs, once_cands, once_idx, once_log>>
    /\ UNCHANGED notPi

\* Step 5: wait_for_completion returned None or an empty mapping.
OnceWaitFails ==
    /\ pi_pc = "call" /\ once_pc = "wait"
    /\ OnceReturnsFalse("wait")
    /\ once_steps' = Append(once_steps, [step |-> "wait", ok |-> FALSE])
    /\ UNCHANGED <<once_outputs, once_cands, once_idx, once_log>>
    /\ UNCHANGED notPi

\* C5 mutant: the download loop goes on after a successful download.
DownloadEndsNever(success) == FALSE

\* "if success: return True" in the download loop.
DownloadEnds(success) == success

\* Step 5 returned outputs; step 6 collects and sorts the candidates:
\* "if not candidates: return False".
OnceCollect ==
    /\ pi_pc = "call" /\ once_pc = "wait"
    /\ \E images \in {s \in SeqsUpTo(JobImagePool, MaxOutputs) : GroupedByNode(s)} :
        LET cands == SortCandidates(CollectCandidates(images, JobClasses))
        IN  /\ once_outputs' = images
            /\ once_cands' = cands
            /\ once_steps' = Append(once_steps, [step |-> "wait", ok |-> TRUE])
            /\ IF cands = <<>>
               THEN /\ OnceReturnsFalse("no_candidates")
                    /\ UNCHANGED once_idx
               ELSE /\ once_pc' = "download" /\ once_idx' = 1
                    /\ UNCHANGED <<pi_pc, pi_max, pi_attempt, pi_sleeps, pi_outcomes,
                                   pi_result, once_last>>
    /\ UNCHANGED once_log
    /\ UNCHANGED notPi

\* One iteration of "for candidate in candidates": download_image is called.
OnceDownload ==
    /\ pi_pc = "call" /\ once_pc = "download"
    /\ \E success \in BOOLEAN :
        /\ once_log' = Append(once_log, [cand |-> once_cands[once_idx], ok |-> success])
        /\ once_steps' = Append(once_steps, [step |-> "download", ok |-> success])
        /\ IF DownloadEnds(success)
           THEN OnceReturnsTrue /\ UNCHANGED once_idx
           ELSE IF once_idx < Len(once_cands)
                THEN /\ once_idx' = once_idx + 1
                     /\ UNCHANGED <<pi_pc, pi_max, pi_attempt, pi_sleeps, pi_outcomes,
                                    pi_result, once_pc, once_last>>
                ELSE OnceReturnsFalse("download") /\ UNCHANGED once_idx
    /\ UNCHANGED <<once_outputs, once_cands>>
    /\ UNCHANGED notPi

\* The range is exhausted: "return False".
PiExhausted ==
    /\ pi_pc = "head" /\ ~InRange(pi_attempt, pi_max)
    /\ pi_result' = "false"
    /\ pi_pc' = "done"
    /\ UNCHANGED <<pi_max, pi_attempt, pi_sleeps, pi_outcomes>>
    /\ UNCHANGED <<once_pc, once_outputs, once_cands, once_idx, once_log, once_last,
                   once_steps>>
    /\ UNCHANGED notPi

PiNext ==
    \/ PiLoopHead
    \/ OnceCheck
    \/ OnceUpload
    \/ OncePrepare
    \/ OncePrepareRaises
    \/ OnceQueue
    \/ OnceWaitFails
    \/ OnceCollect
    \/ OnceDownload
    \/ PiExhausted

SpecProcess == PiInit /\ [][PiNext]_vars

\* Attempts begun so far (the one in progress included).
PiBegun == Len(pi_outcomes) + (IF pi_pc = "call" THEN 1 ELSE 0)

\* C2: the pauses made so far are 5, 10, ... : 5*k seconds before the k-th
\* attempt (k counted from 0, none before the first), whatever the outcomes;
\* after fail, fail, ok the pauses are 5 then 10 and the call returns success.
C2_LinearBackoff ==
    /\ pi_sleeps = [k \in 1..(IF PiBegun > 0 THEN PiBegun - 1 ELSE 0) |-> 5 * k]
    /\ (pi_outcomes = <<"fail", "fail", "ok">>
            => pi_sleeps = <<5, 10>> /\ pi_result = "true")

C2_Witness ==
    pi_pc = "done" /\ pi_outcomes = <<"fail", "fail", "ok">> /\ pi_sleeps = <<5, 10>>

\* C3: at most max_retries attempts; none after a successful one; failure is
\* returned exactly when max_retries attempts were made and all failed.
C3_BoundedRetries ==
    /\ PiBegun <= pi_max
    /\ \A i \in 1..Len(pi_outcomes) :
            pi_outcomes[i] = "ok" => i = Len(pi_outcomes) /\ pi_pc = "done"
    /\ pi_pc = "done" =>
            (pi_result = "false" <=>
                /\ Len(pi_outcomes) = pi_max
                /\ \A i \in 1..Len(pi_outcomes) : pi_outcomes[i] = "fail")

C3_Witness ==
    pi_pc = "done" /\ pi_result = "false" /\ pi_max = 3 /\ Len(pi_outcomes) = 3

\* The claim's own ranking of two candidates: a ranks strictly above b.
C5_Above(a, b) ==
    \/ a.priority < b.priority
    \/ a.priority = b.priority /\ a.class_rank < b.class_rank
    \/ a.priority = b.priority /\ a.class_rank = b.class_rank
        /\ a.node_order < b.node_order

\* C5: within an attempt the i-th download is of the i-th candidate and every
\* earlier download failed, so every higher-ranked candidate was tried and
\* failed first and nothing is downloaded after a success; the attempt fails
\* at the download step only with no candidate or with all of them failed.
C5_DownloadFallback ==
    /\ Len(once_log) <= Len(once_cands)
    /\ \A i \in 1..Len(once_log) :
        /\ once_log[i].cand = once_cands[i]
        /\ \A j \in 1..(i - 1) : ~once_log[j].ok
        /\ \A k \in 1..Len(once_cands) :
              C5_Above(once_cands[k], once_log[i].cand)
                => \E j \in 1..(i - 1) : once_log[j].cand = once_cands[k] /\ ~once_log[j].ok
    /\ (once_pc = "idle" /\ once_last = "no_candidates") => once_cands = <<>>
    /\ (once_pc = "idle" /\ once_last = "download") =>
            /\ Len(once_log) = Len(once_cands) /\ once_cands # <<>>
            /\ \A i \in 1..Len(once_log) : ~once_log[i].ok
    /\ (once_pc = "idle" /\ once_last = "ok") =>
            /\ once_log # <<>> /\ once_log[Len(once_log)].ok

C5_Witness ==
    /\ once_pc = "idle" /\ once_last = "ok" /\ Len(once_log) = 2
    /\ ~once_log[1].ok /\ once_log[2].ok
    /\ once_log[1].cand.node_id = "3" /\ once_log[2].cand.node_id = "5"

\* the order of the steps of _process_image_once
C32_Order == <<"check", "upload", "prepare", "queue", "wait">>

\* the steps of the latest attempt come in the order check, upload, prepare,
\* queue, wait, download, and each ran only after every earlier one succeeded
C32_Gated ==
    \A i \in 1..Len(once_steps) :
        /\ once_steps[i].step = (IF i <= Len(C32_Order) THEN C32_Order[i] ELSE "download")
        /\ (i < Len(once_steps) /\ i <= Len(C32_Order)) => once_steps[i].ok
        /\ (i > Len(C32_Order) /\ once_steps[i].ok) => i = Len(once_steps)

C32_FailedStep(i) == i <= Len(C32_Order) /\ ~once_steps[i].ok

\* C32: an attempt performs its steps in the order connection check, upload,
\* preparation, submission, wait, download; each step runs only if every
\* earlier one succeeded; the first failing step makes the attempt return
\* false with no later step executed.
C32_FirstFailureReturnsFalse ==
    /\ C32_Gated
    /\ \A i \in 1..Len(once_steps) :
          C32_FailedStep(i) =>
              /\ i = Len(once_steps)
              /\ once_pc = "idle"
              /\ pi_outcomes # <<>>
              /\ pi_outcomes[Len(pi_outcomes)] = "fail"

\* the same, with the attempt ending either by returning false or, at the
\* preparation step, by the exception of prepare_workflow
C32_FirstFailureEndsAttempt ==
    /\ C32_Gated
    /\ \A i \in 1..Len(once_steps) :
          C32_FailedStep(i) =>
              /\ i = Len(once_steps)
              /\ once_pc = "idle"
              /\ pi_outcomes # <<>>
              /\ \/ pi_outcomes[Len(pi_outcomes)] = "fail"
                 \/ /\ pi_outcomes[Len(pi_outcomes)] = "raise"
                    /\ once_steps[i].step = "prepare"

-----------------------------------------------------------------------------
(***************************************************************************)
(* ComfyUIClient.check_connection: health check with HTTP fallback.        *)
(***************************************************************************)

\* check_connection calls explored on one client instance.
MaxCalls == 3

\* f"{scheme}://{host}:{port}" for the client's fixed host and port.
BaseUrl(scheme) == IF scheme = "https" THEN "https://host:port" ELSE "http://host:port"

\* How a requests.get ends: status 200, another status, a TLS handshake
\* error (requests.exceptions.SSLError), or any other exception.
GetOutcomes == {"200", "status", "ssl_error", "error"}

\* C6 mutant: the fallback records the scheme but keeps the old base URL.
DowngradeSchemeOnly(base_url) == [scheme |-> "http", base_url |-> base_url]

\* self.scheme = "http"; self.base_url = fallback_url
Downgrade(base_url) == [scheme |-> "http", base_url |-> BaseUrl("http")]

\* C31 mutant: the fallback is tried after a TLS error whatever the scheme.
TriesFallbackAnyScheme(outcome, scheme) == outcome = "ssl_error"

\* except requests.exceptions.SSLError: if self.scheme == "https"
TriesFallback(outcome, scheme) == outcome = "ssl_error" /\ scheme = "https"

CcInit ==
    /\ cc_scheme \in {"http", "https"}
    /\ cc_base_url = BaseUrl(cc_scheme)
    /\ cc_log = <<>>
    /\ cc_calls = 0
    /\ cc_switched_at = 0
    /\ cc_returns = <<>>
    /\ GuiIdle /\ PiIdle /\ SoIdle /\ WfIdle /\ PwIdle /\ WkIdle /\ DrIdle /\ VrIdle /\ CfIdle /\ CsIdle /\ UpIdle /\ UcIdle /\ DlIdle /\ GlIdle /\ UsIdle /\ FtIdle /\ CoIdle /\ RsIdle

\* One check_connection call: the request to base_url and, after a TLS
\* handshake error on an https client, the single request to the http URL.
CheckConnection ==
    /\ cc_calls < MaxCalls
    /\ cc_calls' = cc_calls + 1
    /\ \E first \in GetOutcomes :
        LET n == cc_calls + 1
            req1 == [url |-> cc_base_url, outcome |-> first, call |-> n]
        IN  IF TriesFallback(first, cc_scheme)
            THEN \E second \in GetOutcomes :
                    LET req2 == [url |-> BaseUrl("http"), outcome |-> second, call |-> n]
                    IN  /\ cc_log' = cc_log \o <<req1, req2>>
                        /\ IF second = "200"
                           THEN /\ cc_scheme' = Downgrade(cc_base_url).scheme
                                /\ cc_base_url' = Downgrade(cc_base_url).base_url
                                /\ cc_switched_at' = n
                                /\ cc_returns' = Append(cc_returns, TRUE)
                           ELSE /\ cc_returns' = Append(cc_returns, FALSE)
                                /\ UNCHANGED <<cc_scheme, cc_base_url, cc_switched_at>>
            ELSE /\ cc_log' = Append(cc_log, req1)
                 /\ cc_returns' = Append(cc_returns, first = "200")
                 /\ UNCHANGED <<cc_scheme, cc_base_url, cc_switched_at>>
    /\ UNCHANGED notCc

CcNext == CheckConnection

SpecConnection == CcInit /\ [][CcNext]_vars

\* C6: once a call has switched the client to HTTP through the fallback, every
\* request of every later call goes to the HTTP base URL, a later call makes
\* one request only, and the client's scheme and base URL stay HTTP.
C6_StickyDowngrade ==
    cc_switched_at > 0 =>
        /\ cc_scheme = "http"
        /\ cc_base_url = "http://host:port"
        /\ \A i \in 1..Len(cc_log) :
              cc_log[i].call > cc_switched_at =>
                /\ cc_log[i].url = "http://host:port"
                /\ \A j \in 1..Len(cc_log) : cc_log[j].call = cc_log[i].call => j = i

C6_Witness ==
    /\ cc_switched_at = 1 /\ cc_calls = 3
    /\ cc_log[Len(cc_log)].call = 3 /\ cc_log[Len(cc_log)].outcome = "ssl_error"

\* the requests made by the check_connection call of this step
C31_Requests == SubSeq(cc_log', Len(cc_log) + 1, Len(cc_log'))

\* C31: a check_connection call makes the HTTP fallback request at most once,
\* and only when the client's scheme is https and the first request ended in
\* a TLS handshake error; when the fallback request does not return status
\* 200 or raises, scheme and base URL are unchanged and the call returns
\* false; every call returns a value (nothing is raised to the caller).
C31_FallbackOnceAndQuiet ==
    [][cc_calls' = cc_calls + 1 =>
          /\ Len(cc_returns') = Len(cc_returns) + 1
          /\ Len(C31_Requests) \in {1, 2}
          /\ C31_Requests[1].url = cc_base_url
          /\ Len(C31_Requests) = 2 =>
                /\ cc_scheme = "https"
                /\ C31_Requests[1].outcome = "ssl_error"
                /\ C31_Requests[2].url = "http://host:port"
                /\ C31_Requests[2].outcome # "200" =>
                      /\ cc_scheme' = "https"
                      /\ cc_base_url' = "https://host:port"
                      /\ cc_returns'[Len(cc_returns')] = FALSE
          /\ (Len(C31_Requests) = 1 /\ C31_Requests[1].outcome # "200") =>
                /\ cc_returns'[Len(cc_returns')] = FALSE
                /\ UNCHANGED <<cc_scheme, cc_base_url>>]_vars

\* a call whose fallback request failed too
C31_Witness ==
    /\ cc_calls = 1 /\ Len(cc_log) = 2
    /\ cc_log[1].outcome = "ssl_error"
    /\ cc_log[2].url = "http://host:port" /\ cc_log[2].outcome = "error"
    /\ cc_scheme = "https" /\ cc_base_url = "https://host:port"
    /\ cc_returns = <<FALSE>>

-----------------------------------------------------------------------------
(***************************************************************************)
(* ComfyUIClient.wait_for_completion: polling the job history.             *)
(***************************************************************************)

\* Largest self.timeout explored, in seconds.
MaxTimeout == 3

\* Longest time one get_history request takes, in seconds.
MaxPollTime == 1

\* What a poll can see: no entry for the job (also a failed request, which
\* get_history turns into {}), or an entry with its status flags and outputs.
NoEntry == [present |-> FALSE, completed |-> FALSE, outputs |-> FALSE, error |-> FALSE]
HistoryEntries ==
    {NoEntry} \cup [present : {TRUE}, completed : BOOLEAN, outputs : BOOLEAN,
                    error : BOOLEAN]

\* C10 mutant: only the completed flag ends the wait.
IsCompleteFlagOnly(entry) == entry.completed

\* status.get("completed", False) or outputs
IsComplete(entry) == entry.completed \/ entry.outputs

\* status.get("status_str") == "error"
IsError(entry) == entry.error

\* while time.time() - start_time < self.timeout
StillWaiting(elapsed, timeout) == elapsed < timeout

WfInit ==
    /\ wf_pc = "loop"
    /\ wf_timeout \in 0..MaxTimeout
    /\ wf_elapsed = 0
    /\ wf_last = NoEntry
    /\ wf_last_at = 0
    /\ wf_prior = FALSE
    /\ wf_polls = 0
    /\ wf_result = "pending"
    /\ wf_why = "none"
    /\ GuiIdle /\ PiIdle /\ SoIdle /\ CcIdle /\ PwIdle /\ WkIdle /\ DrIdle /\ VrIdle /\ CfIdle /\ CsIdle /\ UpIdle /\ UcIdle /\ DlIdle /\ GlIdle /\ UsIdle /\ FtIdle /\ CoIdle /\ RsIdle

\* One iteration of the loop: get_history, the two tests, time.sleep(1).
WfPoll ==
    /\ wf_pc = "loop" /\ StillWaiting(wf_elapsed, wf_timeout)
    /\ \E entry \in HistoryEntries, took \in 0..MaxPollTime :
        /\ wf_last' = entry
        /\ wf_last_at' = wf_elapsed
        /\ wf_polls' = wf_polls + 1
        /\ wf_prior' = (wf_prior \/ (wf_polls > 0 /\ wf_last.present
                                      /\ (wf_last.completed \/ wf_last.outputs)))
        /\ IF entry.present /\ IsComplete(entry)
           THEN /\ wf_result' = IF entry.outputs THEN "outputs" ELSE "empty"
                /\ wf_why' = "complete"
                /\ wf_pc' = "done"
                /\ wf_elapsed' = wf_elapsed + took
           ELSE IF entry.present /\ IsError(entry)
           THEN /\ wf_result' = "none"
                /\ wf_why' = "error"
                /\ wf_pc' = "done"
                /\ wf_elapsed' = wf_elapsed + took
           ELSE /\ wf_elapsed' = wf_elapsed + took + 1
                /\ UNCHANGED <<wf_result, wf_why, wf_pc>>
    /\ UNCHANGED wf_timeout
    /\ UNCHANGED notWf

\* The loop condition fails: "return None".
WfTimeout ==
    /\ wf_pc = "loop" /\ ~StillWaiting(wf_elapsed, wf_timeout)
    /\ wf_result' = "none"
    /\ wf_why' = "timeout"
    /\ wf_pc' = "done"
    /\ UNCHANGED <<wf_timeout, wf_elapsed, wf_last, wf_last_at, wf_prior, wf_polls>>
    /\ UNCHANGED notWf

WfNext == WfPoll \/ WfTimeout

SpecWait == WfInit /\ [][WfNext]_vars

\* The calling thread keeps running: a poll or the time-out check that can be
\* made is made.
SpecWaitFair == SpecWait /\ WF_vars(WfNext)

\* The state part of C10.
C10_Safety ==
    /\ ~wf_prior
    /\ (wf_polls > 0 /\ wf_last.present /\ (wf_last.completed \/ wf_last.outputs))
        => /\ wf_pc = "done"
           /\ wf_result = (IF wf_last.outputs THEN "outputs" ELSE "empty")
    /\ wf_result \in {"outputs", "empty"}
        => wf_polls > 0 /\ wf_last.present /\ (wf_last.completed \/ wf_last.outputs)
    /\ wf_polls > 0 => wf_last_at < wf_timeout
    /\ wf_pc = "loop" => wf_result = "pending"
    /\ wf_pc = "done" => wf_result # "pending"
    /\ (wf_pc = "done" /\ wf_why = "timeout")
        => wf_result = "none" /\ wf_elapsed >= wf_timeout

\* C10: the outputs are returned at the first poll whose entry is completed or
\* has outputs (no poll follows it); polls are made only while the time-out
\* has not elapsed, after which None is returned; the call always ends.
C10_WaitReturns == [](C10_Safety) /\ <>(wf_pc = "done")

C10_Witness ==
    /\ wf_pc = "done" /\ wf_result = "outputs" /\ wf_polls = 2
    /\ ~wf_last.completed /\ wf_last.outputs

\* C11: whenever the entry a poll saw carries the status string "error",
\* wait_for_completion returned None at that poll, whatever else the entry
\* contains.
C11_ErrorReturnsNone ==
    (wf_polls > 0 /\ wf_last.present /\ wf_last.error) =>
        wf_pc = "done" /\ wf_result = "none" /\ wf_why = "error"

\* ------------------------------------------------------------------------
\* ComfyUIClient.prepare_workflow and _prepare_api_format_workflow
\* (src/comfyui_client.py 155-346).  A JSON value is a record [k, s, n]:
\* a string, a number, a boolean, or a link reference [node id, slot].
\* ------------------------------------------------------------------------
MaxExtraNodes == 1
MaxSeed == 1
MaxPrepares == 2

Str(s) == [k |-> "str", s |-> s, n |-> 0]
Num(n) == [k |-> "num", s |-> "", n |-> n]
Bool(b) == [k |-> "bool", s |-> "", n |-> IF b THEN 1 ELSE 0]
Ref(node, slot) == [k |-> "ref", s |-> node, n |-> slot]

\* str(node["id"]), str(link[1])
StrOf(i) ==
    CASE i = 3 -> "3" [] i = 5 -> "5" [] i = 6 -> "6" [] i = 8 -> "8"
      [] i = 9 -> "9" [] i = 20 -> "20" [] i = 21 -> "21" [] i = 25 -> "25"
      [] i = 30 -> "30" [] i = 31 -> "31" [] i = 32 -> "32" [] i = 33 -> "33"
      [] i = 142 -> "142" [] i = 143 -> "143" [] i = 190 -> "190"

Put(f, key, v) == [x \in DOMAIN f \cup {key} |-> IF x = key THEN v ELSE f[x]]
Pop(f, key) == [x \in DOMAIN f \ {key} |-> f[x]]
NoInputs == [x \in {} |-> Str("")]
SourceImageName == "upload.png"

\* widget_mappings.get(node_type, [])
ParamNames(node_type) ==
    CASE node_type = "VAELoader" -> <<"vae_name">>
      [] node_type = "UNETLoader" -> <<"unet_name", "weight_dtype">>
      [] node_type = "DualCLIPLoader" ->
            <<"clip_name1", "clip_name2", "type", "device">>
      [] node_type = "LoadImage" -> <<"image", "upload">>
      [] node_type = "LoadImageOutput" ->
            <<"image", "upload_to_output", "refresh", "upload">>
      [] node_type = "DeepTranslatorTextNode" ->
            <<"from_translate", "to_translate", "add_proxies", "proxies",
              "auth_data", "service", "text">>
      [] node_type = "KSamplerSelect" -> <<"sampler_name">>
      [] node_type = "RandomNoise" -> <<"noise_seed", "control_after_generate">>
      [] node_type = "BasicScheduler" -> <<"scheduler", "steps", "denoise">>
      [] node_type = "EmptySD3LatentImage" -> <<"width", "height", "batch_size">>
      [] node_type = "FluxGuidance" -> <<"guidance">>
      [] node_type = "CLIPTextEncode" -> <<"text">>
      [] node_type = "SaveImage" -> <<"filename_prefix">>
      [] node_type = "easy hiresFix" ->
            <<"model_name", "rescale_after_model", "rescale_method", "rescale",
              "percent", "width", "height", "longer_side", "crop",
              "image_output", "link_id", "save_prefix">>
      [] OTHER -> <<>>

IsApiFormat(workflow) ==
    /\ workflow.shape # "graph"
    /\ \E id \in DOMAIN workflow.nodes : workflow.nodes[id].class_type # ""

\* links_map: a later link with the same id replaces an earlier one
LinksMap(links) ==
    [l \in {links[i].id : i \in 1..Len(links)} |->
        LET last == CHOOSE i \in 1..Len(links) :
                        /\ links[i].id = l
                        /\ \A j \in 1..Len(links) : links[j].id = l => j <= i
        IN  <<StrOf(links[last].src), links[last].slot>>]

DisabledNodes(nodes) ==
    {StrOf(nodes[i].id) : i \in {j \in 1..Len(nodes) : nodes[j].mode = 4}}

SourceDisabledNever(source_node, disabled_nodes) == FALSE

SourceDisabled(source_node, disabled_nodes) == source_node \in disabled_nodes

\* step 1 of the node loop: inputs after the first n entries of node.inputs
RECURSIVE LinkedInputs(_, _, _, _)
LinkedInputs(inps, n, links_map, disabled_nodes) ==
    IF n = 0 THEN NoInputs
    ELSE LET acc == LinkedInputs(inps, n - 1, links_map, disabled_nodes)
             inp == inps[n]
         IN  IF inp.link # 0 /\ inp.link \in DOMAIN links_map
             THEN IF SourceDisabled(links_map[inp.link][1], disabled_nodes)
                  THEN acc
                  ELSE Put(acc, inp.name,
                           Ref(links_map[inp.link][1], links_map[inp.link][2]))
             ELSE acc

\* C40 mutant: a widget value is stored whether or not the name is set
RECURSIVE WidgetInputsOverwrite(_, _, _, _)
WidgetInputsOverwrite(inputs, widgets_values, param_names, n) ==
    IF n = 0 THEN inputs
    ELSE LET acc == WidgetInputsOverwrite(inputs, widgets_values, param_names,
                                          n - 1)
         IN  IF n <= Len(param_names)
             THEN Put(acc, param_names[n], widgets_values[n])
             ELSE acc

\* step 2: inputs after the first n widget values
RECURSIVE WidgetInputs(_, _, _, _)
WidgetInputs(inputs, widgets_values, param_names, n) ==
    IF n = 0 THEN inputs
    ELSE LET acc == WidgetInputs(inputs, widgets_values, param_names, n - 1)
         IN  IF n <= Len(param_names) /\ param_names[n] \notin DOMAIN acc
             THEN Put(acc, param_names[n], widgets_values[n])
             ELSE acc

\* widgets_values[i] if len(widgets_values) > i else default  (i is 0-based)
WidgetOr(widgets_values, i, default) ==
    IF Len(widgets_values) > i THEN widgets_values[i + 1] ELSE default

\* step 3: node "8" LoadImage
FixLoadImage(node_id, node_type, api_node) ==
    IF node_id = "8" /\ node_type = "LoadImage"
    THEN [api_node EXCEPT
            !.inputs = Put(api_node.inputs, "image", Str(SourceImageName))]
    ELSE api_node

\* step 3: node "142" LoadImageOutput
FixLoadImageOutput(node_id, node_type, api_node) ==
    IF node_id = "142" /\ node_type = "LoadImageOutput"
    THEN [api_node EXCEPT
            !.class_type = "LoadImage",
            !.inputs = Pop(Pop(Put(api_node.inputs, "image",
                                   Str(SourceImageName)),
                               "refresh"), "upload_to_output")]
    ELSE api_node

\* step 4: DeepTranslatorTextNode "20" / "190"
FixTranslator(node_id, node_type, widgets_values, prompt_text, api_node) ==
    IF node_type = "DeepTranslatorTextNode" /\ node_id \in {"20", "190"}
    THEN LET i0 == api_node.inputs
             i1 == IF prompt_text # "" THEN Put(i0, "text", Str(prompt_text))
                   ELSE IF Len(widgets_values) > 6
                        THEN Put(i0, "text", widgets_values[7])
                        ELSE i0
             i2 == Put(i1, "from_translate",
                       WidgetOr(widgets_values, 0, Str("auto")))
             i3 == Put(i2, "to_translate",
                       WidgetOr(widgets_values, 1, Str("english")))
             i4 == Put(i3, "add_proxies",
                       WidgetOr(widgets_values, 2, Bool(FALSE)))
             i5 == Put(i4, "proxies", WidgetOr(widgets_values, 3, Str("")))
             i6 == Put(i5, "auth_data", WidgetOr(widgets_values, 4, Str("")))
             i7 == Put(i6, "service",
                       WidgetOr(widgets_values, 5, Str("GoogleTranslator")))
         IN  [api_node EXCEPT !.inputs = i7]
    ELSE api_node

\* the body of the node loop for one enabled node
ConvertNode(node, links_map, disabled_nodes, prompt_text) ==
    LET node_id == StrOf(node.id)
        linked == LinkedInputs(node.inputs, Len(node.inputs), links_map,
                               disabled_nodes)
        filled == WidgetInputs(linked, node.widgets_values,
                               ParamNames(node.type), Len(node.widgets_values))
        a0 == [class_type |-> node.type, inputs |-> filled, meta |-> FALSE]
        a1 == FixLoadImage(node_id, node.type, a0)
        a2 == FixLoadImageOutput(node_id, node.type, a1)
    IN  FixTranslator(node_id, node.type, node.widgets_values, prompt_text, a2)

\* api_workflow after the first n nodes of the graph
RECURSIVE ConvertNodes(_, _, _, _, _)
ConvertNodes(nodes, n, links_map, disabled_nodes, prompt_text) ==
    IF n = 0 THEN <<>>
    ELSE LET acc == ConvertNodes(nodes, n - 1, links_map, disabled_nodes,
                                 prompt_text)
         IN  IF nodes[n].mode = 4 THEN acc
             ELSE Put(acc, StrOf(nodes[n].id),
                      ConvertNode(nodes[n], links_map, disabled_nodes,
                                  prompt_text))

\* the input key _prepare_api_format_workflow draws a seed for ("" if none)
SeedKey(node) ==
    IF node.class_type \in {"KSampler", "KSamplerAdvanced"}
       /\ "seed" \in DOMAIN node.inputs
    THEN "seed"
    ELSE IF node.class_type = "RandomNoise" /\ "noise_seed" \in DOMAIN node.inputs
         THEN "noise_seed"
         ELSE ""

SeededIds(workflow) ==
    {id \in DOMAIN workflow.nodes : SeedKey(workflow.nodes[id]) # ""}

\* the loop body of _prepare_api_format_workflow; new_seed is random.randint
PrepareApiNode(node, prompt_text, new_seed) ==
    LET class_type == node.class_type
        n1 == IF class_type = "LoadImage"
              THEN [node EXCEPT !.inputs = Put(node.inputs, "image",
                                               Str(SourceImageName))]
              ELSE IF class_type = "LoadImageOutput"
                   THEN [node EXCEPT
                           !.class_type = "LoadImage",
                           !.inputs = Pop(Pop(Put(node.inputs, "image",
                                                  Str(SourceImageName)),
                                              "refresh"), "upload_to_output")]
                   ELSE node
        n2 == IF SeedKey(node) # ""
              THEN [n1 EXCEPT !.inputs = Put(n1.inputs, SeedKey(node),
                                             Num(new_seed))]
              ELSE n1
        n3 == IF class_type = "DeepTranslatorTextNode" /\ prompt_text # ""
              THEN [n2 EXCEPT !.inputs = Put(n2.inputs, "text",
                                             Str(prompt_text))]
              ELSE n2
    IN  [n3 EXCEPT !.meta = FALSE,
                   !.inputs = Pop(n3.inputs, "speak_and_recognation")]

PrepareApiFormatWorkflow(workflow, prompt_text, seeds) ==
    [id \in DOMAIN workflow.nodes |->
        PrepareApiNode(workflow.nodes[id], prompt_text,
                       IF id \in DOMAIN seeds THEN seeds[id] ELSE 0)]

\* prepare_workflow: the flattened workflow and the (node, key) pairs whose
\* value this call drew with random.randint
PrepareWorkflow(workflow, prompt_text, seeds) ==
    IF IsApiFormat(workflow)
    THEN [wf |-> PrepareApiFormatWorkflow(workflow, prompt_text, seeds),
          drawn |-> {<<id, SeedKey(workflow.nodes[id])>> :
                        id \in SeededIds(workflow)}]
    ELSE [wf |-> ConvertNodes(workflow.nodes, Len(workflow.nodes),
                              LinksMap(workflow.links),
                              DisabledNodes(workflow.nodes), prompt_text),
          drawn |-> {}]

\* ---- templates the client can have loaded ------------------------------
\* widgets_values as the editor saves them for a node of the given type
FullWidgets(node_type) ==
    CASE node_type = "LoadImage" -> <<Str("old.png"), Str("image")>>
      [] node_type = "LoadImageOutput" ->
            <<Str("old.png [output]"), Bool(FALSE), Str("refresh"), Str("image")>>
      [] node_type = "DeepTranslatorTextNode" ->
            <<Str("auto"), Str("english"), Bool(FALSE), Str(""), Str(""),
              Str("GoogleTranslator"), Str("template text")>>
      [] node_type = "CLIPTextEncode" -> <<Str("clip text")>>
      [] node_type = "RandomNoise" -> <<Num(7), Str("randomize")>>
      [] node_type = "KSampler" ->
            <<Num(7), Str("randomize"), Num(20), Num(8), Str("euler"),
              Str("normal"), Num(1)>>
      [] OTHER -> <<>>

GraphNode(id, node_type, mode, inputs, widgets_values) ==
    [id |-> id, type |-> node_type, mode |-> mode, inputs |-> inputs,
     widgets_values |-> widgets_values]

\* the node at the source end of the link
SourceKinds ==
    {<<8, "LoadImage">>, <<5, "LoadImage">>, <<142, "LoadImageOutput">>,
     <<25, "RandomNoise">>, <<3, "KSampler">>}

SourceNodes ==
    {GraphNode(kd[1], kd[2], mode, <<>>, FullWidgets(kd[2])) :
        kd \in SourceKinds, mode \in {0, 4}}

\* the node at the target end of the link
TargetKinds ==
    {<<20, "DeepTranslatorTextNode">>, <<21, "DeepTranslatorTextNode">>,
     <<6, "CLIPTextEncode">>, <<8, "LoadImage">>, <<9, "LoadImage">>,
     <<142, "LoadImageOutput">>, <<143, "LoadImageOutput">>}

TargetInputNames(node_type) ==
    CASE node_type = "DeepTranslatorTextNode" -> {"text", "service"}
      [] node_type = "CLIPTextEncode" -> {"text", "clip"}
      [] node_type = "LoadImage" -> {"image", "upload"}
      [] node_type = "LoadImageOutput" -> {"image", "refresh"}

TargetNodes ==
    UNION {
        {GraphNode(kd[1], kd[2], mode, <<>>, w) :
            mode \in {0, 4}, w \in {<<>>, FullWidgets(kd[2])}}
        \cup
        {GraphNode(kd[1], kd[2], mode, <<[name |-> nm, link |-> 1]>>, w) :
            mode \in {0, 4}, w \in {<<>>, FullWidgets(kd[2])},
            nm \in TargetInputNames(kd[2])}
        : kd \in TargetKinds}

\* further enabled nodes of the graph
ExtraPool ==
    {GraphNode(30, "RandomNoise", 0, <<>>, FullWidgets("RandomNoise")),
     GraphNode(31, "LoadImage", 0, <<>>, FullWidgets("LoadImage")),
     GraphNode(32, "LoadImageOutput", 0, <<>>, FullWidgets("LoadImageOutput")),
     GraphNode(33, "KSampler", 0, <<>>, FullWidgets("KSampler"))}

ExtraNodes ==
    {sq \in SeqsUpTo(ExtraPool, MaxExtraNodes) :
        \A i, j \in 1..Len(sq) : i < j => sq[i].id < sq[j].id}

\* editor-graph templates: node ids are unique; the link table either holds
\* the link the target's input names, or does not (a dangling link id)
GraphTemplates ==
    {g \in {[shape |-> "graph", nodes |-> <<x, y>> \o ex,
             links |-> IF linked
                       THEN <<[id |-> 1, src |-> x.id, slot |-> 0]>>
                       ELSE <<>>] :
                x \in SourceNodes, y \in TargetNodes, ex \in ExtraNodes,
                linked \in BOOLEAN} :
        g.nodes[1].id # g.nodes[2].id}

ApiNode(class_type, inputs) ==
    [class_type |-> class_type, inputs |-> inputs, meta |-> TRUE]

ApiPool ==
    [id \in {"10", "11", "3", "4", "25", "20", "9"} |->
        CASE id = "10" ->
                ApiNode("LoadImage",
                        Put(Put(NoInputs, "image", Str("old.png")),
                            "upload", Str("image")))
          [] id = "11" ->
                ApiNode("LoadImageOutput",
                        Put(Put(Put(NoInputs, "image", Str("old.png [output]")),
                                "refresh", Str("refresh")),
                            "upload_to_output", Bool(FALSE)))
          [] id = "3" ->
                ApiNode("KSampler",
                        Put(Put(NoInputs, "seed", Num(7)),
                            "latent_image", Ref("10", 0)))
          [] id = "4" ->
                ApiNode("KSamplerAdvanced",
                        Put(Put(NoInputs, "noise_seed", Num(7)),
                            "steps", Num(20)))
          [] id = "25" ->
                ApiNode("RandomNoise", Put(NoInputs, "noise_seed", Num(7)))
          [] id = "20" ->
                ApiNode("DeepTranslatorTextNode",
                        Put(Put(NoInputs, "text", Str("template text")),
                            "speak_and_recognation", Bool(TRUE)))
          [] id = "9" ->
                ApiNode("SaveImage", Put(NoInputs, "images", Ref("3", 0)))]

\* flattened templates: a dict keyed by node id
ApiTemplates ==
    {[shape |-> "api", nodes |-> [id \in ids |-> ApiPool[id]], links |-> <<>>] :
        ids \in (SUBSET DOMAIN ApiPool) \ {{}}}

NoResult == [wf |-> <<>>, drawn |-> {}]

PwInit ==
    /\ GuiIdle /\ PiIdle /\ SoIdle /\ CcIdle /\ WfIdle /\ WkIdle /\ DrIdle /\ VrIdle /\ CfIdle /\ CsIdle /\ UpIdle /\ UcIdle /\ DlIdle /\ GlIdle /\ UsIdle /\ FtIdle /\ CoIdle /\ RsIdle
    /\ pw_template \in GraphTemplates \cup ApiTemplates
    /\ pw_prompt \in {"", "a prompt"}
    /\ pw_calls = 0
    /\ pw_prev = NoResult
    /\ pw_out = NoResult

\* one prepare_workflow call on a flattened template
PrepareApi ==
    /\ pw_calls < MaxPrepares
    /\ IsApiFormat(pw_template)
    /\ \E seeds \in [SeededIds(pw_template) -> 0..MaxSeed] :
          pw_out' = PrepareWorkflow(pw_template, pw_prompt, seeds)
    /\ pw_prev' = pw_out
    /\ pw_calls' = pw_calls + 1
    /\ UNCHANGED <<pw_template, pw_prompt>>
    /\ UNCHANGED notPw

\* one prepare_workflow call on an editor-graph template
PrepareGraph ==
    /\ pw_calls < MaxPrepares
    /\ ~IsApiFormat(pw_template)
    /\ pw_out' = PrepareWorkflow(pw_template, pw_prompt, <<>>)
    /\ pw_prev' = pw_out
    /\ pw_calls' = pw_calls + 1
    /\ UNCHANGED <<pw_template, pw_prompt>>
    /\ UNCHANGED notPw

PwNext == PrepareApi \/ PrepareGraph

SpecPrepare == PwInit /\ [][PwNext]_vars

\* ---- claims about prepare_workflow -------------------------------------
\* the template is an editor graph, a call has returned, node xi has mode 4
\* and input k of node yi names a link of the link table whose source is xi
C7_Linked(xi, yi, k) ==
    /\ pw_calls > 0
    /\ pw_template.shape = "graph"
    /\ pw_template.nodes[xi].mode = 4
    /\ \E l \in 1..Len(pw_template.links) :
          /\ pw_template.links[l].id = pw_template.nodes[yi].inputs[k].link
          /\ pw_template.links[l].src = pw_template.nodes[xi].id

\* a positional widget value of the node maps to the input name
C7_WidgetNamed(node, name) ==
    \E i \in 1..Len(node.widgets_values) :
        i <= Len(ParamNames(node.type)) /\ ParamNames(node.type)[i] = name

\* an id-specific fixup of the node sets the input name
C7_FixupNamed(node, name) ==
    \/ node.id = 8 /\ node.type = "LoadImage" /\ name = "image"
    \/ node.id = 142 /\ node.type = "LoadImageOutput" /\ name = "image"
    \/ /\ node.type = "DeepTranslatorTextNode" /\ node.id \in {20, 190}
       /\ name \in {"text", "from_translate", "to_translate", "add_proxies",
                    "proxies", "auth_data", "service"}

\* C7 as the spec states it: converting a graph in which X has mode 4 and Y
\* has an input linked from X gives a result with no entry for X and with
\* no key for that input on Y, for every graph.
C7_DisabledSourceOmitted ==
    pw_template.shape = "graph" =>
        \A xi, yi \in 1..Len(pw_template.nodes) :
            \A k \in 1..Len(pw_template.nodes[yi].inputs) :
                C7_Linked(xi, yi, k) =>
                    LET X == StrOf(pw_template.nodes[xi].id)
                        Y == StrOf(pw_template.nodes[yi].id)
                        name == pw_template.nodes[yi].inputs[k].name
                    IN  /\ X \notin DOMAIN pw_out.wf
                        /\ Y \in DOMAIN pw_out.wf =>
                              name \notin DOMAIN pw_out.wf[Y].inputs

\* C7 amended: for a graph with unique node ids, when X has mode 4 and Y has
\* an input linked from X, the result has no entry for X, and Y's inputs
\* have a key of that name only if a positional widget value of Y maps to
\* the name or an id-specific fixup of Y sets it; the key never holds the
\* reference to X.
C7_DisabledSourceNotReferenced ==
    pw_template.shape = "graph" =>
        \A xi, yi \in 1..Len(pw_template.nodes) :
            \A k \in 1..Len(pw_template.nodes[yi].inputs) :
                C7_Linked(xi, yi, k) =>
                    LET X == StrOf(pw_template.nodes[xi].id)
                        Y == StrOf(pw_template.nodes[yi].id)
                        name == pw_template.nodes[yi].inputs[k].name
                    IN  /\ X \notin DOMAIN pw_out.wf
                        /\ (Y \in DOMAIN pw_out.wf
                            /\ name \in DOMAIN pw_out.wf[Y].inputs) =>
                              /\ \/ C7_WidgetNamed(pw_template.nodes[yi], name)
                                 \/ C7_FixupNamed(pw_template.nodes[yi], name)
                              /\ ~ /\ pw_out.wf[Y].inputs[name].k = "ref"
                                   /\ pw_out.wf[Y].inputs[name].s = X

\* C7 witness: a converted graph where enabled Y's input is linked from
\* disabled X, Y has no widget or fixup for the name, and the key is absent
C7_Witness ==
    /\ pw_template.shape = "graph"
    /\ Len(pw_template.nodes[2].inputs) = 1
    /\ C7_Linked(1, 2, 1)
    /\ pw_template.nodes[2].mode = 0
    /\ ~C7_WidgetNamed(pw_template.nodes[2], pw_template.nodes[2].inputs[1].name)
    /\ ~C7_FixupNamed(pw_template.nodes[2], pw_template.nodes[2].inputs[1].name)
    /\ StrOf(pw_template.nodes[2].id) \in DOMAIN pw_out.wf
    /\ pw_template.nodes[2].inputs[1].name
          \notin DOMAIN pw_out.wf[StrOf(pw_template.nodes[2].id)].inputs
    /\ StrOf(pw_template.nodes[1].id) \notin DOMAIN pw_out.wf

\* the nodes of the loaded template, whatever its shape, as
\* <<id, type, has a stored seed, has a stored noise_seed>>
C8_TemplateNodes ==
    IF pw_template.shape = "graph"
    THEN {<<StrOf(pw_template.nodes[i].id), pw_template.nodes[i].type,
            pw_template.nodes[i].type \in {"KSampler", "KSamplerAdvanced"}
                /\ Len(pw_template.nodes[i].widgets_values) > 0,
            pw_template.nodes[i].type = "RandomNoise"
                /\ Len(pw_template.nodes[i].widgets_values) > 0>> :
            i \in {j \in 1..Len(pw_template.nodes) :
                      pw_template.nodes[j].mode # 4}}
    ELSE {<<id, pw_template.nodes[id].class_type,
            pw_template.nodes[id].class_type \in {"KSampler", "KSamplerAdvanced"}
                /\ "seed" \in DOMAIN pw_template.nodes[id].inputs,
            pw_template.nodes[id].class_type = "RandomNoise"
                /\ "noise_seed" \in DOMAIN pw_template.nodes[id].inputs>> :
            id \in DOMAIN pw_template.nodes}

\* the workflow with every drawn seed value blanked
C8_ApartFromSeeds(result) ==
    [id \in DOMAIN result.wf |->
        [result.wf[id] EXCEPT
            !.inputs = [key \in DOMAIN result.wf[id].inputs |->
                            IF <<id, key>> \in result.drawn THEN Num(0)
                            ELSE result.wf[id].inputs[key]]]]

\* C8: for a template of either shape every call assigns each sampler
\* node's seed and each random-noise node's noise_seed a newly drawn value
\* in the seed range, and two consecutive calls on the same template give
\* results identical apart from those seed values.
C8_FreshSeeds ==
    pw_calls > 0 =>
        /\ \A nd \in C8_TemplateNodes :
              /\ nd[3] => /\ <<nd[1], "seed">> \in pw_out.drawn
                          /\ pw_out.wf[nd[1]].inputs["seed"].n \in 0..MaxSeed
              /\ nd[4] => /\ <<nd[1], "noise_seed">> \in pw_out.drawn
                          /\ pw_out.wf[nd[1]].inputs["noise_seed"].n
                                \in 0..MaxSeed
        /\ pw_calls > 1 => C8_ApartFromSeeds(pw_prev) = C8_ApartFromSeeds(pw_out)

\* C9: after a call on a template of either shape, whatever the node ids,
\* every LoadImage node carries the uploaded file name as its image input
\* and no LoadImageOutput node remains.
C9_EveryLoadImageRewritten ==
    pw_calls > 0 =>
        \A id \in DOMAIN pw_out.wf :
            /\ pw_out.wf[id].class_type # "LoadImageOutput"
            /\ pw_out.wf[id].class_type = "LoadImage" =>
                  /\ "image" \in DOMAIN pw_out.wf[id].inputs
                  /\ pw_out.wf[id].inputs["image"] = Str(SourceImageName)
                  /\ DOMAIN pw_out.wf[id].inputs
                        \cap {"refresh", "upload_to_output"} = {}

\* ------------------------------------------------------------------------
\* WorkerThread.run, run_stage1, run_stage2, run_manual_stage2 and stop
\* (src/gui_app.py 76-475, 532-533).  File and folder names are sequences
\* of characters.
\* ------------------------------------------------------------------------
MaxWkTasks == 2

\* str.lower(), on the characters used
LowerChar(c) ==
    CASE c = "A" -> "a" [] c = "B" -> "b" [] c = "P" -> "p" [] c = "N" -> "n"
      [] c = "G" -> "g" [] c = "J" -> "j" [] c = "Y" -> "y" [] c = "E" -> "e"
      [] c = "S" -> "s" [] c = "Z" -> "z" [] c = "I" -> "i" [] OTHER -> c

Lower(str) == [i \in DOMAIN str |-> LowerChar(str[i])]

\* os.path.splitext(name)[0]: the part before the last dot, a dot that only
\* follows leading dots not counting
SplitExtStem(name) ==
    LET dots == {i \in DOMAIN name : name[i] = "."}
        last == CHOOSE i \in dots : \A j \in dots : j <= i
    IN  IF dots = {} \/ \A j \in 1..(last - 1) : name[j] = "."
        THEN name
        ELSE SubSeq(name, 1, last - 1)

\* C12 mutant: the stem is compared without lower-casing
IsRuleACaseSensitive(img_name) == SplitExtStem(img_name) = <<"a">>

\* img_stem_lower == 'a'
IsRuleA(img_name) == SplitExtStem(Lower(img_name)) = <<"a">>

\* C13 mutant: rule B never applies
IsRuleBNever(img_name) == FALSE

\* img_stem_lower == 'b'
IsRuleB(img_name) == SplitExtStem(Lower(img_name)) = <<"b">>

\* task['folder_rel_path'].replace("\\", "_").replace("/", "_")
FolderKey(folder_rel_path) ==
    [i \in DOMAIN folder_rel_path |->
        IF folder_rel_path[i] \in {"\\", "/"} THEN "_" ELSE folder_rel_path[i]]

Task(img_name, folder_rel_path) ==
    [img_name |-> img_name, folder_rel_path |-> folder_rel_path]

NoTask == Task(<<>>, <<>>)

\* the images _collect_images can find, each with its relative folder
TaskPool ==
    {Task(<<"a", ".", "p", "n", "g">>, <<"p", "/", "q">>),
     Task(<<"A", ".", "P", "N", "G">>, <<"p", "_", "q">>),
     Task(<<"b", ".", "j", "p", "g">>, <<"p", "/", "q">>),
     Task(<<"B", ".", "j", "p", "g">>, <<"r">>),
     Task(<<"a", ".", "b", ".", "p", "n", "g">>, <<"r">>),
     Task(<<"c", ".", "p", "n", "g">>, <<"p", "_", "q">>)}

\* all_tasks for a task file with one Folder Name value: every image found
\* is one task (the lists of a file with several values are in SpecCollect)
TaskLists ==
    {sq \in SeqsUpTo(TaskPool, MaxWkTasks) :
        \A i, j \in 1..Len(sq) : i # j => sq[i] # sq[j]}

\* a stage-1 result: self.stage1_results[source_path] = {output, task}
ResultItem(task, output) == [task |-> task, output |-> output]

\* dict assignment: an existing key keeps its place
DictPut(items, item) ==
    IF \E i \in 1..Len(items) : items[i].task = item.task
    THEN [i \in 1..Len(items) |->
            IF items[i].task = item.task THEN item ELSE items[i]]
    ELSE Append(items, item)

Row(stage, task, status, path) ==
    [stage |-> stage, task |-> task, status |-> status, path |-> path]

WkModes == {"stage1", "stage2", "full_auto", "manual_stage2"}

WkInit ==
    /\ GuiIdle /\ PiIdle /\ SoIdle /\ CcIdle /\ WfIdle /\ PwIdle /\ DrIdle /\ VrIdle /\ CfIdle /\ CsIdle /\ UpIdle /\ UcIdle /\ DlIdle /\ GlIdle /\ UsIdle /\ FtIdle /\ CoIdle /\ RsIdle
    /\ wk_mode \in WkModes
    /\ wk_pc = "start"
    /\ wk_tasks \in (IF wk_mode = "stage2" THEN {<<>>} ELSE TaskLists)
    /\ wk_idx = 0
    /\ wk_should_stop = FALSE
    /\ IF wk_mode = "stage2"
       THEN \E prior \in TaskLists :
               wk_results = [i \in 1..Len(prior) |->
                                ResultItem(prior[i], "stage1_output")]
       ELSE wk_results = <<>>
    /\ wk_rows = <<>> /\ wk_calls = <<>> /\ wk_files = {} /\ wk_success = 0
    /\ wk_oss = FALSE /\ wk_s2tasks = <<>> /\ wk_s2idx = 0
    /\ wk_report = <<>> /\ wk_counts = <<>> /\ wk_actions = <<>>
    /\ wk_begun = <<>> /\ wk_gate = <<>>

\* where run() goes when run_stage1 returns
AfterStage1(mode) == IF mode = "full_auto" THEN "gate" ELSE "done"

\* C18 mutant: the loops never look at the flag
StopRequestedNever(should_stop) == FALSE

\* if self.should_stop: return
StopRequested(should_stop) == should_stop

\* C17 mutant: run_stage2 is called whatever stage 1 left
GateOpenAlways(should_stop, stage1_results) == TRUE

\* if not self.should_stop and self.stage1_results
GateOpen(should_stop, stage1_results) ==
    ~should_stop /\ stage1_results # <<>>

\* run(): dispatch on self.mode
WkRunBegin ==
    /\ wk_pc = "start"
    /\ wk_pc' = CASE wk_mode \in {"stage1", "full_auto"} -> "s1_setup"
                  [] wk_mode = "stage2" -> "s2_setup"
                  [] wk_mode = "manual_stage2" -> "m_setup"
    /\ UNCHANGED <<wk_mode, wk_tasks, wk_idx, wk_should_stop, wk_results, wk_rows,
                   wk_calls, wk_files, wk_success, wk_oss, wk_s2tasks, wk_s2idx,
                   wk_report, wk_counts, wk_actions, wk_begun, wk_gate>>
    /\ UNCHANGED notWk

\* run_stage1 up to the task loop: any failed precondition emits
\* error_occurred and returns
S1Setup ==
    /\ wk_pc = "s1_setup"
    /\ \E ok \in BOOLEAN :
          IF ok /\ wk_tasks # <<>>
          THEN wk_pc' = "s1_check" /\ wk_idx' = 1
          ELSE wk_pc' = AfterStage1(wk_mode) /\ UNCHANGED wk_idx
    /\ UNCHANGED <<wk_mode, wk_tasks, wk_should_stop, wk_results, wk_rows,
                   wk_calls, wk_files, wk_success, wk_oss, wk_s2tasks, wk_s2idx,
                   wk_report, wk_counts, wk_actions, wk_begun, wk_gate>>
    /\ UNCHANGED notWk

\* head of the stage-1 loop: the loop ends, or the flag is seen, or the
\* next task begins
S1Check ==
    /\ wk_pc = "s1_check"
    /\ IF wk_idx > Len(wk_tasks) \/ StopRequested(wk_should_stop)
       THEN wk_pc' = AfterStage1(wk_mode) /\ UNCHANGED wk_begun
       ELSE /\ wk_pc' = "s1_task"
            /\ wk_begun' = Append(wk_begun, [stage |-> 1, task |-> wk_tasks[wk_idx],
                                             stop |-> wk_should_stop])
    /\ UNCHANGED <<wk_mode, wk_tasks, wk_idx, wk_should_stop, wk_results, wk_rows,
                   wk_calls, wk_files, wk_success, wk_oss, wk_s2tasks, wk_s2idx,
                   wk_report, wk_counts, wk_actions, wk_gate>>
    /\ UNCHANGED notWk

\* a stage-1 task ends without a stage-1 result
S1NoResult(task, status) ==
    /\ wk_rows' = Append(wk_rows, Row(1, task, status, ""))
    /\ wk_idx' = wk_idx + 1 /\ wk_pc' = "s1_check"
    /\ UNCHANGED <<wk_results, wk_files, wk_success>>

\* a stage-1 task ends with its output file written and recorded
S1Result(task, status, content) ==
    /\ wk_rows' = Append(wk_rows, Row(1, task, status, "stage1_output"))
    /\ wk_files' = wk_files \cup {[task |-> task, content |-> content]}
    /\ wk_results' = DictPut(wk_results, ResultItem(task, "stage1_output"))
    /\ wk_success' = wk_success + 1
    /\ wk_idx' = wk_idx + 1 /\ wk_pc' = "s1_check"

\* ensure_dir raises outside the try: run() catches it and the run ends
S1Raises ==
    /\ wk_pc' = "done"
    /\ UNCHANGED <<wk_rows, wk_idx, wk_results, wk_files, wk_success>>

\* the body of the stage-1 loop for one task
S1Task ==
    /\ wk_pc = "s1_task"
    /\ LET task == wk_tasks[wk_idx]
       IN  IF IsRuleA(task.img_name)
           THEN S1NoResult(task, "skipped_a") /\ UNCHANGED wk_calls
           ELSE IF IsRuleB(task.img_name)
           THEN /\ UNCHANGED wk_calls
                /\ \/ S1Result(task, "skipped_comfyui", "source")
                   \/ S1NoResult(task, "copy_failed")
                   \/ S1Raises
           ELSE \/ /\ wk_calls' = Append(wk_calls, task)
                   /\ \/ S1Result(task, "ok", "generated")
                      \/ S1NoResult(task, "failed")
                      \/ S1NoResult(task, "error")
                \/ S1Raises /\ UNCHANGED wk_calls
    /\ UNCHANGED <<wk_mode, wk_tasks, wk_should_stop, wk_oss, wk_s2tasks, wk_s2idx,
                   wk_report, wk_counts, wk_actions, wk_begun, wk_gate>>
    /\ UNCHANGED notWk

\* run(), full_auto: the test between the two stages
WkGate ==
    /\ wk_pc = "gate"
    /\ wk_gate' = <<[stop |-> wk_should_stop, results |-> Len(wk_results)]>>
    /\ wk_pc' = IF GateOpen(wk_should_stop, wk_results) THEN "s2_setup" ELSE "done"
    /\ UNCHANGED <<wk_mode, wk_tasks, wk_idx, wk_should_stop, wk_results, wk_rows,
                   wk_calls, wk_files, wk_success, wk_oss, wk_s2tasks, wk_s2idx,
                   wk_report, wk_counts, wk_actions, wk_begun>>
    /\ UNCHANGED notWk

\* C34 mutant: the last entry is left out
Stage2TasksButLast(stage1_results) ==
    SubSeq(stage1_results, 1, Len(stage1_results) - 1)

\* tasks = list(self.stage1_results.values())
Stage2Tasks(stage1_results) == stage1_results

\* run_stage2 up to the task loop
S2Setup ==
    /\ wk_pc = "s2_setup"
    /\ wk_actions' = Append(wk_actions, [kind |-> "run_stage2", task |-> NoTask])
    /\ IF wk_results = <<>>
       THEN wk_pc' = "done" /\ UNCHANGED <<wk_oss, wk_s2tasks, wk_s2idx>>
       ELSE /\ wk_oss' \in BOOLEAN
            /\ wk_s2tasks' = Stage2Tasks(wk_results)
            /\ wk_s2idx' = 1
            /\ wk_pc' = "s2_check"
    /\ UNCHANGED <<wk_mode, wk_tasks, wk_idx, wk_should_stop, wk_results, wk_rows,
                   wk_calls, wk_files, wk_success, wk_report, wk_counts, wk_begun,
                   wk_gate>>
    /\ UNCHANGED notWk

\* run_manual_stage2 up to the task loop
ManualSetup ==
    /\ wk_pc = "m_setup"
    /\ \E ok \in BOOLEAN :
          IF ok /\ wk_tasks # <<>>
          THEN /\ wk_oss' \in BOOLEAN
               /\ wk_s2tasks' = [i \in 1..Len(wk_tasks) |->
                                    ResultItem(wk_tasks[i], "source_path")]
               /\ wk_s2idx' = 1
               /\ wk_pc' = "s2_check"
          ELSE wk_pc' = "done" /\ UNCHANGED <<wk_oss, wk_s2tasks, wk_s2idx>>
    /\ UNCHANGED <<wk_mode, wk_tasks, wk_idx, wk_should_stop, wk_results, wk_rows,
                   wk_calls, wk_files, wk_success, wk_report, wk_counts, wk_actions,
                   wk_begun, wk_gate>>
    /\ UNCHANGED notWk

\* head of the stage-2 loop; after the last task the report is saved
S2Check ==
    /\ wk_pc = "s2_check"
    /\ IF wk_s2idx > Len(wk_s2tasks)
       THEN /\ wk_actions' = Append(wk_actions, [kind |-> "report", task |-> NoTask])
            /\ wk_pc' = "done"
            /\ UNCHANGED wk_begun
       ELSE IF StopRequested(wk_should_stop)
       THEN wk_pc' = "done" /\ UNCHANGED <<wk_actions, wk_begun>>
       ELSE /\ wk_pc' = "s2_task"
            /\ wk_begun' = Append(wk_begun,
                                  [stage |-> 2, task |-> wk_s2tasks[wk_s2idx].task,
                                   stop |-> wk_should_stop])
            /\ UNCHANGED wk_actions
    /\ UNCHANGED <<wk_mode, wk_tasks, wk_idx, wk_should_stop, wk_results, wk_rows,
                   wk_calls, wk_files, wk_success, wk_oss, wk_s2tasks, wk_s2idx,
                   wk_report, wk_counts, wk_gate>>
    /\ UNCHANGED notWk

ImageCol(n) == <<"Image", n>>

UploadFailed == [kind |-> "Upload Failed", task |-> NoTask]

DirectLink(task) == [kind |-> "link", task |-> task]

\* C14 mutant: the per-folder count is not advanced
NextCountStuck(counts, folder_key) == 1

\* self.folder_image_counts[folder_key] += 1
NextCount(counts, folder_key) == counts[folder_key] + 1

\* lines 346-353 / 463-470: one more column in the folder's report row
RecordReport(task, result_link) ==
    LET folder_key == FolderKey(task.folder_rel_path)
        fresh == folder_key \notin DOMAIN wk_report
        report == IF fresh THEN Put(wk_report, folder_key, <<>>) ELSE wk_report
        counts == IF fresh THEN Put(wk_counts, folder_key, 0) ELSE wk_counts
        n == NextCount(counts, folder_key)
    IN  /\ wk_counts' = Put(counts, folder_key, n)
        /\ wk_report' = Put(report, folder_key,
                            Put(report[folder_key], ImageCol(n),
                                IF result_link THEN DirectLink(task)
                                ELSE UploadFailed))

\* the body of the stage-2 loop for one task
S2Task ==
    /\ wk_pc = "s2_task"
    /\ LET task == wk_s2tasks[wk_s2idx].task
           composite == [kind |-> "composite", task |-> task]
           upload == [kind |-> "upload", task |-> task]
       IN  \/ \* ensure_dir raises outside the try
              /\ wk_pc' = "done"
              /\ UNCHANGED <<wk_rows, wk_actions, wk_report, wk_counts, wk_s2idx>>
           \/ /\ wk_pc' = "s2_check" /\ wk_s2idx' = wk_s2idx + 1
              /\ \/ \* composited and uploaded
                    /\ wk_oss
                    /\ wk_actions' = wk_actions \o <<composite, upload>>
                    /\ wk_rows' = Append(wk_rows, Row(2, task, "done", "link"))
                    /\ RecordReport(task, TRUE)
                 \/ \* composited, the upload gave no link
                    /\ wk_oss
                    /\ wk_actions' = wk_actions \o <<composite, upload>>
                    /\ wk_rows' = Append(wk_rows,
                                         Row(2, task, "done", "processed_path"))
                    /\ RecordReport(task, FALSE)
                 \/ \* composited, nothing uploaded
                    /\ wk_actions' = Append(wk_actions, composite)
                    /\ wk_rows' = Append(wk_rows,
                                         Row(2, task, "done", "processed_path"))
                    /\ RecordReport(task, FALSE)
                 \/ \* compositing returned False or raised
                    /\ \E status \in {"failed", "error"} :
                          wk_rows' = Append(wk_rows, Row(2, task, status, ""))
                    /\ wk_actions' = Append(wk_actions, composite)
                    /\ RecordReport(task, FALSE)
    /\ UNCHANGED <<wk_mode, wk_tasks, wk_idx, wk_should_stop, wk_results, wk_calls,
                   wk_files, wk_success, wk_oss, wk_s2tasks, wk_begun, wk_gate>>
    /\ UNCHANGED notWk

\* WorkerThread.stop, called from the GUI thread while the worker runs
WkStop ==
    /\ wk_pc # "done" /\ ~wk_should_stop
    /\ wk_should_stop' = TRUE
    /\ UNCHANGED <<wk_mode, wk_pc, wk_tasks, wk_idx, wk_results, wk_rows, wk_calls,
                   wk_files, wk_success, wk_oss, wk_s2tasks, wk_s2idx, wk_report,
                   wk_counts, wk_actions, wk_begun, wk_gate>>
    /\ UNCHANGED notWk

WkNext ==
    \/ WkRunBegin
    \/ S1Setup
    \/ S1Check
    \/ S1Task
    \/ WkGate
    \/ S2Setup
    \/ ManualSetup
    \/ S2Check
    \/ S2Task
    \/ WkStop

SpecWorker == WkInit /\ [][WkNext]_vars

\* ---- claims about the pipeline worker ----------------------------------
\* the file name without its extension is the given letter, in either case
C12_Named(img_name, lower, upper) ==
    /\ Len(img_name) >= 1
    /\ img_name[1] \in {lower, upper}
    /\ Len(img_name) > 1 =>
          /\ img_name[2] = "."
          /\ \A j \in 3..Len(img_name) : img_name[j] # "."

\* result rows stage 1 emitted for a task
C12_Stage1Rows(task) ==
    {r \in 1..Len(wk_rows) : wk_rows[r].stage = 1 /\ wk_rows[r].task = task}

\* C12: in Stage 1 a task whose file name without extension is 'a' (in
\* either case) causes no backend call and no output file, gets exactly one
\* result row, with the skipped-A status and an empty output path, and is
\* not added to stage1_results.
C12_RuleASkips ==
    wk_mode \in {"stage1", "full_auto"} =>
        \A i \in 1..Len(wk_tasks) :
            C12_Named(wk_tasks[i].img_name, "a", "A") =>
                /\ \A c \in 1..Len(wk_calls) : wk_calls[c] # wk_tasks[i]
                /\ \A f \in wk_files : f.task # wk_tasks[i]
                /\ \A r \in 1..Len(wk_results) : wk_results[r].task # wk_tasks[i]
                /\ \A k \in 1..Len(wk_actions) : wk_actions[k].task # wk_tasks[i]
                /\ Cardinality(C12_Stage1Rows(wk_tasks[i]))
                      = (IF i < wk_idx THEN 1 ELSE 0)
                /\ \A r \in C12_Stage1Rows(wk_tasks[i]) :
                      wk_rows[r].status = "skipped_a" /\ wk_rows[r].path = ""

\* C12 witness: a finished full_auto run whose first task A.PNG was skipped
\* and whose second task went through both stages
C12_Witness ==
    /\ wk_mode = "full_auto" /\ wk_pc = "done" /\ Len(wk_tasks) = 2
    /\ wk_tasks[1].img_name = <<"A", ".", "P", "N", "G">>
    /\ wk_idx = 3
    /\ Len(wk_rows) = 3 /\ wk_rows[1].status = "skipped_a"
    /\ wk_rows[3].stage = 2 /\ wk_rows[3].path = "link"

\* stage-1 rows that count as a success
C13_SuccessRows ==
    {r \in 1..Len(wk_rows) :
        wk_rows[r].stage = 1 /\ wk_rows[r].status \in {"ok", "skipped_comfyui"}}

\* the task has a verbatim copy at its stage-1 output path, is in
\* stage1_results, is counted, and is in the task list of a stage 2 that began
C13_CopiedAndKept(task) ==
    /\ [task |-> task, content |-> "source"] \in wk_files
    /\ \E r \in 1..Len(wk_results) :
          wk_results[r] = ResultItem(task, "stage1_output")
    /\ \E r \in C13_SuccessRows : wk_rows[r].task = task
    /\ wk_success = Cardinality(C13_SuccessRows)
    /\ (wk_mode = "full_auto" /\ wk_s2tasks # <<>>) =>
          \E k \in 1..Len(wk_s2tasks) : wk_s2tasks[k].task = task

C14_Processed(folder_key) ==
    SelectSeq(SubSeq(wk_s2tasks, 1, wk_s2idx - 1),
              LAMBDA item : FolderKey(item.task.folder_rel_path) = folder_key)

\* the stage-2 loop got a link for the task
C14_HasLink(task) ==
    \E r \in 1..Len(wk_rows) :
        wk_rows[r].stage = 2 /\ wk_rows[r].task = task /\ wk_rows[r].path = "link"

\* the report rows as they should be after the tasks processed so far
C14_RowsComplete ==
    /\ \A i \in 1..(wk_s2idx - 1) :
          FolderKey(wk_s2tasks[i].task.folder_rel_path) \in DOMAIN wk_report
    /\ \A folder_key \in DOMAIN wk_report :
          LET done == C14_Processed(folder_key)
          IN  /\ Len(done) >= 1
              /\ DOMAIN wk_report[folder_key] = {<<"Image", i>> : i \in 1..Len(done)}
              /\ \A i \in 1..Len(done) :
                    wk_report[folder_key][<<"Image", i>>] =
                        IF C14_HasLink(done[i].task)
                        THEN [kind |-> "link", task |-> done[i].task]
                        ELSE [kind |-> "Upload Failed", task |-> NoTask]

\* no step removes or changes a column
C14_ColumnsKept ==
    \A folder_key \in DOMAIN wk_report :
        /\ folder_key \in DOMAIN wk_report'
        /\ \A col \in DOMAIN wk_report[folder_key] :
              /\ col \in DOMAIN wk_report'[folder_key]
              /\ wk_report'[folder_key][col] = wk_report[folder_key][col]

\* C14: in Stage 2 and manual Stage 2, after n tasks of one folder key
\* have been processed the report row of that key has exactly the columns
\* Image 1 .. Image n, column i holding the link of the i-th task processed
\* for the key or "Upload Failed" when that task yielded no link; a column
\* is never overwritten or removed during the run.
C14_ReportColumns == [](C14_RowsComplete) /\ [][C14_ColumnsKept]_vars

\* C14 witness: two tasks of folder key p_q processed by manual stage 2,
\* the first without a link and the second with one
C14_Witness ==
    /\ wk_mode = "manual_stage2" /\ wk_s2idx = 3
    /\ <<"p", "_", "q">> \in DOMAIN wk_report
    /\ DOMAIN wk_report[<<"p", "_", "q">>] = {<<"Image", 1>>, <<"Image", 2>>}
    /\ wk_report[<<"p", "_", "q">>][<<"Image", 1>>].kind = "Upload Failed"
    /\ wk_report[<<"p", "_", "q">>][<<"Image", 2>>].kind = "link"
    /\ wk_tasks[1].folder_rel_path # wk_tasks[2].folder_rel_path

\* something of stage 2 has happened in this run
C17_Stage2Happened ==
    \/ wk_actions # <<>>
    \/ wk_report # <<>>
    \/ \E r \in 1..Len(wk_rows) : wk_rows[r].stage = 2
    \/ \E b \in 1..Len(wk_begun) : wk_begun[b].stage = 2

\* C17: in a full_auto run Stage 2 starts only after Stage 1 has returned,
\* and only if no stop was requested and Stage 1 produced at least one
\* result; otherwise no Stage 2 action (compositing, upload, report write)
\* happens in that run.
C17_Stage2AfterStage1 ==
    (wk_mode = "full_auto" /\ C17_Stage2Happened) =>
        /\ wk_pc \in {"s2_setup", "s2_check", "s2_task", "done"}
        /\ wk_gate # <<>>
        /\ ~wk_gate[1].stop
        /\ wk_gate[1].results >= 1
        /\ \A r1, r2 \in 1..Len(wk_rows) :
              (r1 < r2 /\ wk_rows[r1].stage = 2) => wk_rows[r2].stage = 2
        /\ \A b1, b2 \in 1..Len(wk_begun) :
              (b1 < b2 /\ wk_begun[b1].stage = 2) => wk_begun[b2].stage = 2

\* C17 witness: a finished full_auto run that wrote its report after a
\* stage 1 with one failed and one successful task
C17_Witness ==
    /\ wk_mode = "full_auto" /\ wk_pc = "done"
    /\ Len(wk_rows) = 3 /\ wk_rows[1].status = "failed" /\ wk_rows[2].status = "ok"
    /\ wk_actions # <<>> /\ wk_actions[Len(wk_actions)].kind = "report"

\* C18: once stop() has set the flag, the worker starts no task after the
\* one in progress: no task begins with the flag set, and a result row is
\* emitted only for a task that had begun, the one in progress included.
C18_StopBetweenTasks ==
    /\ \A b \in 1..Len(wk_begun) : ~wk_begun[b].stop
    /\ \A r \in 1..Len(wk_rows) :
          \E b \in 1..Len(wk_begun) :
              wk_begun[b].stage = wk_rows[r].stage /\ wk_begun[b].task = wk_rows[r].task
    /\ Len(wk_rows) <= Len(wk_begun)

\* C18 witness: a stage1 worker with two tasks was stopped during its first
\* task; the task ended with its row and the second task never began
C18_Witness ==
    /\ wk_mode = "stage1" /\ wk_pc = "done" /\ wk_should_stop
    /\ Len(wk_tasks) = 2 /\ wk_idx = 2
    /\ Len(wk_begun) = 1 /\ Len(wk_rows) = 1 /\ wk_rows[1].status = "ok"

\* ------------------------------------------------------------------------
\* DriveUploader.create_folder (src/drive_uploader.py 69-106).  A parent id
\* is a string; "None" stands for None.
\* ------------------------------------------------------------------------
MaxDriveCalls == 2

\* folder_name.replace("\\", "_").replace("/", "_")
CleanFolderName(folder_name) ==
    [i \in DOMAIN folder_name |->
        IF folder_name[i] \in {"\\", "/"} THEN "_" ELSE folder_name[i]]

\* if parent_id is None: parent_id = self.parent_id
EffectiveParent(parent_id, self_parent_id) ==
    IF parent_id = "None" THEN self_parent_id ELSE parent_id

\* "if parent_id:" is true
ParentGiven(parent_id) == parent_id \notin {"None", ""}

\* the folders the query matches
Matching(folders, folder_name, parent_id) ==
    {f \in folders :
        /\ f.name = folder_name
        /\ ParentGiven(parent_id) => f.parent = parent_id}

\* where a created folder goes
CreatedParent(parent_id) == IF ParentGiven(parent_id) THEN parent_id ELSE "root"

\* C15 mutant: the result of the query is ignored
FoundExistingNever(items) == FALSE

\* if items:
FoundExisting(items) == items # {}

DriveNames == {<<"X">>, <<"a", "/", "b">>, <<"a", "_", "b">>}
DriveParents == {"None", "", "P1"}

\* folders in the Drive before the uploader's first call
PriorFolders ==
    {[id |-> 11, name |-> <<"X">>, parent |-> "P1"],
     [id |-> 12, name |-> <<"X">>, parent |-> "root"],
     [id |-> 13, name |-> <<"a", "_", "b">>, parent |-> "P1"]}

DrInit ==
    /\ GuiIdle /\ PiIdle /\ SoIdle /\ CcIdle /\ WfIdle /\ PwIdle /\ WkIdle /\ VrIdle /\ CfIdle /\ CsIdle /\ UpIdle /\ UcIdle /\ DlIdle /\ GlIdle /\ UsIdle /\ FtIdle /\ CoIdle /\ RsIdle
    /\ dr_service \in BOOLEAN
    /\ dr_parent_id \in {"None", "", "P1"}
    /\ dr_folders \in SUBSET PriorFolders
    /\ dr_made = {}
    /\ dr_calls = <<>>

\* one create_folder call.  The query sees every folder that was there
\* before the uploader's first call and any of the folders the uploader has
\* made since; either request can raise.
CreateFolder ==
    /\ Len(dr_calls) < MaxDriveCalls
    /\ \E folder_name \in DriveNames, parent_arg \in DriveParents :
        LET name == CleanFolderName(folder_name)
            parent_id == EffectiveParent(parent_arg, dr_parent_id)
            all == Matching(dr_folders, name, parent_id)
            call == [name |-> name, parent |-> parent_id, seen |-> {},
                     complete |-> FALSE, made |-> 0, result |-> 0]
        IN  IF ~dr_service
            THEN /\ dr_calls' = Append(dr_calls, call)
                 /\ UNCHANGED <<dr_folders, dr_made>>
            ELSE \/ \* files().list raises
                    /\ dr_calls' = Append(dr_calls, call)
                    /\ UNCHANGED <<dr_folders, dr_made>>
                 \/ \E hidden \in SUBSET {f \in all : f.id \in dr_made} :
                      LET items == all \ hidden
                          seen == [call EXCEPT !.seen = {f.id : f \in items},
                                               !.complete = (hidden = {})]
                      IN  IF FoundExisting(items)
                          THEN /\ \E first \in items :
                                     dr_calls' = Append(dr_calls,
                                                   [seen EXCEPT !.result = first.id])
                               /\ UNCHANGED <<dr_folders, dr_made>>
                          ELSE \/ \* files().create raises
                                  /\ dr_calls' = Append(dr_calls, seen)
                                  /\ UNCHANGED <<dr_folders, dr_made>>
                               \/ LET id == Cardinality(dr_made) + 1
                                  IN  /\ dr_folders' = dr_folders \cup
                                            {[id |-> id, name |-> name,
                                              parent |-> CreatedParent(parent_id)]}
                                      /\ dr_made' = dr_made \cup {id}
                                      /\ dr_calls' = Append(dr_calls,
                                            [seen EXCEPT !.made = id, !.result = id])
    /\ UNCHANGED <<dr_service, dr_parent_id>>
    /\ UNCHANGED notDr

DrNext == CreateFolder

SpecDrive == DrInit /\ [][DrNext]_vars

\* C15: when two create_folder calls in a row have the same name and
\* parent, the first made the folder and the second call's query sees it,
\* both return the same folder id and exactly one folder of that name is
\* under that parent.
C15_CreateFolderIdempotent ==
    \A i \in 1..(Len(dr_calls) - 1) :
        LET first == dr_calls[i]
            second == dr_calls[i + 1]
        IN  (/\ first.name = second.name /\ first.parent = second.parent
             /\ first.made # 0 /\ first.complete
             /\ first.made \in second.seen) =>
                /\ second.result = first.result
                /\ second.made = 0
                /\ (i + 1 = Len(dr_calls)) =>
                      Cardinality({f \in dr_folders :
                                      /\ f.name = first.name
                                      /\ f.parent = CreatedParent(first.parent)}) = 1

\* C15 witness: two calls for a/b and a_b under the configured parent; the
\* first made folder 1 and the second found it
C15_Witness ==
    /\ Len(dr_calls) = 2
    /\ dr_calls[1].name = <<"a", "_", "b">> /\ dr_calls[1].parent = "P1"
    /\ dr_calls[1].made = 1 /\ dr_calls[2].made = 0
    /\ dr_calls[2].seen = {1} /\ dr_calls[2].result = 1

\* ------------------------------------------------------------------------
\* updater.parse_version and is_newer (src/updater.py 33-47).  A version
\* string is a sequence of characters.
\* ------------------------------------------------------------------------
Digits == {"0", "1", "2", "3", "4", "5", "6", "7", "8", "9"}

DigitValue(c) ==
    CASE c = "0" -> 0 [] c = "1" -> 1 [] c = "2" -> 2 [] c = "3" -> 3
      [] c = "4" -> 4 [] c = "5" -> 5 [] c = "6" -> 6 [] c = "7" -> 7
      [] c = "8" -> 8 [] c = "9" -> 9

\* str.strip(): white space off both ends
RECURSIVE Strip(_)
Strip(str) ==
    IF str # <<>> /\ str[1] = " " THEN Strip(Tail(str))
    ELSE IF str # <<>> /\ str[Len(str)] = " "
         THEN Strip(SubSeq(str, 1, Len(str) - 1))
         ELSE str

\* str.lstrip("v"): every leading v
RECURSIVE LStripV(_)
LStripV(str) ==
    IF str # <<>> /\ str[1] = "v" THEN LStripV(Tail(str)) ELSE str

\* the length of the run of digits str starts with
RECURSIVE DigitRun(_)
DigitRun(str) ==
    IF str # <<>> /\ str[1] \in Digits THEN 1 + DigitRun(Tail(str)) ELSE 0

\* int() of a run of digits
RECURSIVE IntOf(_)
IntOf(digits) ==
    IF digits = <<>> THEN 0
    ELSE 10 * IntOf(SubSeq(digits, 1, Len(digits) - 1))
         + DigitValue(digits[Len(digits)])

\* a run of digits at the start of str: <<found, value, rest>>
Number(str) ==
    LET n == DigitRun(str)
    IN  <<n > 0, IntOf(SubSeq(str, 1, n)), SubSeq(str, n + 1, Len(str))>>

\* a dot at the start of str: <<found, rest>>
Dot(str) ==
    IF str # <<>> /\ str[1] = "." THEN <<TRUE, Tail(str)>> ELSE <<FALSE, str>>

NoVersion == [ok |-> FALSE, major |-> 0, minor |-> 0, patch |-> 0]

\* parse_version; ok = FALSE stands for the ValueError
ParseVersion(version_str) ==
    LET cleaned == LStripV(Strip(version_str))
        major == Number(cleaned)
        dot1 == Dot(major[3])
        minor == Number(dot1[2])
        dot2 == Dot(minor[3])
        patch == Number(dot2[2])
    IN  IF major[1] /\ dot1[1] /\ minor[1] /\ dot2[1] /\ patch[1]
        THEN [ok |-> TRUE, major |-> major[2], minor |-> minor[2],
              patch |-> patch[2]]
        ELSE NoVersion

\* C16 mutant: an equal tuple counts as newer
TupleGreaterOrEqual(a, b) ==
    IF a.major # b.major THEN a.major > b.major
    ELSE IF a.minor # b.minor THEN a.minor > b.minor
    ELSE a.patch >= b.patch

\* Python's > on two 3-tuples
TupleGreater(a, b) ==
    IF a.major # b.major THEN a.major > b.major
    ELSE IF a.minor # b.minor THEN a.minor > b.minor
    ELSE a.patch > b.patch

\* is_newer
IsNewer(remote_version, local_version) ==
    LET remote == ParseVersion(remote_version)
        local == ParseVersion(local_version)
    IN  IF ~remote.ok \/ ~local.ok THEN FALSE ELSE TupleGreater(remote, local)

VersionStrings ==
    {<<"1", ".", "3", ".", "0">>,
     <<"1", ".", "2", ".", "9">>,
     <<"1", ".", "2", ".", "0">>,
     <<"v", "1", ".", "2", ".", "0">>,
     <<" ", "1", ".", "2", ".", "0", " ">>,
     <<"1", ".", "1", "0", ".", "0">>,
     <<"1", ".", "2", ".", "1", "0">>,
     <<"2", ".", "0", ".", "0", "-", "r", "c">>,
     <<"1", ".", "0", ".", "0">>,
     <<"1", ".", "2">>,
     <<"1", ".", ".", "2">>,
     <<"n", "o", "t", "-", "a", "-", "v", "e", "r", "s", "i", "o", "n">>,
     <<>>}

VrInit ==
    /\ GuiIdle /\ PiIdle /\ SoIdle /\ CcIdle /\ WfIdle /\ PwIdle /\ WkIdle /\ DrIdle
    /\ CfIdle /\ CsIdle /\ UpIdle /\ UcIdle /\ DlIdle /\ GlIdle /\ UsIdle /\ FtIdle /\ CoIdle /\ RsIdle
    /\ vr_remote \in VersionStrings
    /\ vr_local \in VersionStrings
    /\ vr_result = "none"

\* one is_newer call
CallIsNewer ==
    /\ vr_result = "none"
    /\ vr_result' = IF IsNewer(vr_remote, vr_local) THEN "true" ELSE "false"
    /\ UNCHANGED <<vr_remote, vr_local>>
    /\ UNCHANGED notVr

VrNext == CallIsNewer

SpecVersion == VrInit /\ [][VrNext]_vars

\* the first tuple is greater, compared component by component from the left
C16_Greater(a, b) ==
    \/ a.major > b.major
    \/ a.major = b.major /\ a.minor > b.minor
    \/ a.major = b.major /\ a.minor = b.minor /\ a.patch > b.patch

\* C16: is_newer is true only if both strings parse and the remote tuple is
\* strictly greater than the local one; it is false for equal versions and
\* whenever a string does not parse, and it never raises; it is true for
\* ("1.3.0", "1.2.9") and false for ("1.2.0", "1.2.0") and for
\* ("not-a-version", "1.0.0").
C16_IsNewer ==
    vr_result # "none" =>
        LET remote == ParseVersion(vr_remote)
            local == ParseVersion(vr_local)
        IN  /\ vr_result \in {"true", "false"}
            /\ vr_result = "true" <=>
                  (remote.ok /\ local.ok /\ C16_Greater(remote, local))
            /\ (remote.ok /\ local.ok /\ remote = local) => vr_result = "false"
            /\ (vr_remote = <<"1", ".", "3", ".", "0">>
                /\ vr_local = <<"1", ".", "2", ".", "9">>) => vr_result = "true"
            /\ (vr_remote = <<"1", ".", "2", ".", "0">>
                /\ vr_local = <<"1", ".", "2", ".", "0">>) => vr_result = "false"
            /\ (vr_remote = <<"n", "o", "t", "-", "a", "-", "v", "e", "r", "s",
                              "i", "o", "n">>
                /\ vr_local = <<"1", ".", "0", ".", "0">>) => vr_result = "false"
            /\ (vr_remote = <<"1", ".", "1", "0", ".", "0">>
                /\ vr_local = <<"1", ".", "2", ".", "9">>) => vr_result = "true"
            /\ (vr_remote = <<"1", ".", "2">>) => vr_result = "false"

\* C16 witness: "1.3.0" against "1.2.9" gave true
C16_Witness ==
    /\ vr_remote = <<"1", ".", "3", ".", "0">>
    /\ vr_local = <<"1", ".", "2", ".", "9">>
    /\ vr_result = "true"

\* ------------------------------------------------------------------------
\* The configuration page's backend address: edit, test, save
\* (src/gui_app.py 556-572, 1004-1006, 1290-1327, 2103-2115, 2168-2271).
\* Addresses are sequences of characters.
\* ------------------------------------------------------------------------
MaxTests == 2

Http == <<"h", "t", "t", "p", ":", "/", "/">>
Https == <<"h", "t", "t", "p", "s", ":", "/", "/">>

\* "sub in str"
Contains(str, sub) ==
    \E i \in 1..(Len(str) - Len(sub) + 1) : SubSeq(str, i, i + Len(sub) - 1) = sub

\* str.rstrip("/"): every trailing slash
RECURSIVE RStripSlash(_)
RStripSlash(str) ==
    IF str # <<>> /\ str[Len(str)] = "/"
    THEN RStripSlash(SubSeq(str, 1, Len(str) - 1))
    ELSE str

\* get_comfyui_url
GetComfyuiUrl(text) == Strip(text)

\* _normalize_comfyui_url
NormalizeComfyuiUrl(url) ==
    LET clean == Strip(url)
    IN  IF clean = <<>> THEN <<>>
        ELSE IF ~Contains(clean, <<":", "/", "/">>)
             THEN RStripSlash(Http \o clean)
             ELSE RStripSlash(clean)

\* the texts the user can leave in the field
FieldTexts ==
    {<<>>,
     <<"a">>,
     <<" ", "a">>,
     Http \o <<"a">>,
     Http \o <<"a", "/">>,
     <<"b">>,
     Https \o <<"a">>}

NoTestResult == [present |-> FALSE, ok |-> FALSE, url |-> <<>>]

\* the page as _create_config_page leaves it: the saved address or nothing in
\* the field, then one call of _on_comfyui_url_changed
CfInit ==
    /\ GuiIdle /\ PiIdle /\ SoIdle /\ CcIdle /\ WfIdle /\ PwIdle /\ WkIdle /\ DrIdle
    /\ VrIdle /\ CsIdle /\ UpIdle /\ UcIdle /\ DlIdle /\ GlIdle /\ UsIdle /\ FtIdle /\ CoIdle /\ RsIdle
    /\ cf_text \in {<<>>, Http \o <<"a">>, Https \o <<"a">>}
    /\ cf_test_ok = FALSE
    /\ cf_tested_url = <<>>
    /\ cf_save_enabled = FALSE
    /\ cf_test_enabled = (NormalizeComfyuiUrl(GetComfyuiUrl(cf_text)) # <<>>)
    /\ cf_worker = 0
    /\ cf_workers = <<>>
    /\ cf_queue = <<>>
    /\ cf_last = NoTestResult
    /\ cf_writes = <<>>

\* the user changes the text: _on_comfyui_url_changed
EditUrl ==
    \E text \in FieldTexts :
        /\ text # cf_text
        /\ cf_text' = text
        /\ cf_test_ok' = FALSE
        /\ cf_tested_url' = <<>>
        /\ cf_save_enabled' = FALSE
        /\ cf_test_enabled' = (NormalizeComfyuiUrl(GetComfyuiUrl(text)) # <<>>)
        /\ UNCHANGED <<cf_worker, cf_workers, cf_queue, cf_last, cf_writes>>
        /\ UNCHANGED notCf

\* self._comfyui_test_worker and self._comfyui_test_worker.isRunning()
WorkerIsRunning ==
    cf_worker # 0 /\ cf_workers[cf_worker].state \in {"running", "emitted"}

\* the user clicks the test button: _test_comfyui_connection, with the
\* _on_comfyui_url_changed that its setText triggers
TestComfyuiConnection ==
    /\ cf_test_enabled
    /\ Len(cf_workers) < MaxTests
    /\ LET raw_url == GetComfyuiUrl(cf_text)
           url == NormalizeComfyuiUrl(raw_url)
           text == IF url # raw_url THEN url ELSE cf_text
           changed == text # cf_text
       IN  IF url = <<>>
           THEN UNCHANGED cfVars
           ELSE IF WorkerIsRunning
           THEN /\ cf_text' = text
                /\ cf_test_ok' = IF changed THEN FALSE ELSE cf_test_ok
                /\ cf_tested_url' = IF changed THEN <<>> ELSE cf_tested_url
                /\ cf_save_enabled' = IF changed THEN FALSE ELSE cf_save_enabled
                /\ cf_test_enabled' = IF changed THEN TRUE ELSE cf_test_enabled
                /\ UNCHANGED <<cf_worker, cf_workers, cf_queue, cf_last, cf_writes>>
           ELSE /\ cf_text' = text
                /\ cf_test_ok' = FALSE
                /\ cf_tested_url' = <<>>
                /\ cf_save_enabled' = FALSE
                /\ cf_test_enabled' = FALSE
                /\ cf_workers' = Append(cf_workers, [url |-> url, state |-> "running"])
                /\ cf_worker' = Len(cf_workers) + 1
                /\ UNCHANGED <<cf_queue, cf_last, cf_writes>>
    /\ UNCHANGED notCf

\* ComfyUIConnectionTestWorker.run emits its result
WorkerEmit ==
    \E i \in 1..Len(cf_workers), ok \in BOOLEAN :
        /\ cf_workers[i].state = "running"
        /\ cf_queue' = Append(cf_queue, [ok |-> ok, url |-> cf_workers[i].url])
        /\ cf_workers' = [cf_workers EXCEPT ![i].state = "emitted"]
        /\ UNCHANGED <<cf_text, cf_test_ok, cf_tested_url, cf_save_enabled,
                       cf_test_enabled, cf_worker, cf_last, cf_writes>>
        /\ UNCHANGED notCf

\* ComfyUIConnectionTestWorker.run returns: the thread is no longer running
WorkerExit ==
    \E i \in 1..Len(cf_workers) :
        /\ cf_workers[i].state = "emitted"
        /\ cf_workers' = [cf_workers EXCEPT ![i].state = "finished"]
        /\ UNCHANGED <<cf_text, cf_test_ok, cf_tested_url, cf_save_enabled,
                       cf_test_enabled, cf_worker, cf_queue, cf_last, cf_writes>>
        /\ UNCHANGED notCf

\* C19 mutant: no result is treated as stale
StaleNever(tested_url, current_url) == FALSE

\* tested_url != current_url
Stale(tested_url, current_url) == tested_url # current_url

\* the main thread handles one check_finished signal: _on_comfyui_test_finished
OnComfyuiTestFinished ==
    /\ cf_queue # <<>>
    /\ LET ok == Head(cf_queue).ok
           tested_url == Head(cf_queue).url
           current_url == NormalizeComfyuiUrl(GetComfyuiUrl(cf_text))
       IN  /\ cf_queue' = Tail(cf_queue)
           /\ cf_test_enabled' = TRUE
           /\ cf_worker' = 0
           /\ cf_last' = [present |-> TRUE, ok |-> ok, url |-> tested_url]
           /\ IF Stale(tested_url, current_url)
              THEN /\ cf_save_enabled' = FALSE
                   /\ UNCHANGED <<cf_test_ok, cf_tested_url>>
              ELSE IF ok
              THEN /\ cf_test_ok' = TRUE
                   /\ cf_tested_url' = tested_url
                   /\ cf_save_enabled' = TRUE
              ELSE /\ cf_test_ok' = FALSE
                   /\ cf_tested_url' = <<>>
                   /\ cf_save_enabled' = FALSE
    /\ UNCHANGED <<cf_text, cf_workers, cf_writes>>
    /\ UNCHANGED notCf

\* the user clicks the save button: _save_comfyui_url.  A write is recorded
\* with the address whose host and port it stores and the state it was made in.
SaveComfyuiUrl ==
    /\ cf_save_enabled
    /\ LET url == NormalizeComfyuiUrl(GetComfyuiUrl(cf_text))
       IN  IF url = <<>> \/ ~cf_test_ok \/ cf_tested_url # url
           THEN UNCHANGED <<cf_writes, cf_save_enabled>>
           ELSE /\ cf_writes' = Append(cf_writes,
                                       [url |-> url, last |-> cf_last,
                                        enabled |-> cf_save_enabled])
                /\ cf_save_enabled' = FALSE
    /\ UNCHANGED <<cf_text, cf_test_ok, cf_tested_url, cf_test_enabled,
                   cf_worker, cf_workers, cf_queue, cf_last>>
    /\ UNCHANGED notCf

CfNext ==
    \/ EditUrl
    \/ TestComfyuiConnection
    \/ WorkerEmit
    \/ WorkerExit
    \/ OnComfyuiTestFinished
    \/ SaveComfyuiUrl

SpecConfig == CfInit /\ [][CfNext]_vars

\* the last test result handled was a success for the address now in the field
C19_GoodTest(last, text) ==
    /\ last.present
    /\ last.ok
    /\ last.url = NormalizeComfyuiUrl(GetComfyuiUrl(text))

\* C19: whenever the Save button is enabled, the most recent completed test
\* succeeded and its tested URL equals the normalized current field value;
\* and every write of the configuration file was made in such a state, for
\* the address that was tested.
C19_SaveNeedsGoodTest ==
    /\ cf_save_enabled => C19_GoodTest(cf_last, cf_text)
    /\ \A i \in 1..Len(cf_writes) :
           /\ cf_writes[i].enabled
           /\ cf_writes[i].last.present
           /\ cf_writes[i].last.ok
           /\ cf_writes[i].last.url = cf_writes[i].url

\* C19 witness: an address was saved after a result for another address had
\* been discarded as stale (two tests were started, the second one passed)
C19_Witness ==
    /\ Len(cf_writes) = 1
    /\ Len(cf_workers) = 2
    /\ cf_workers[1].url # cf_workers[2].url
    /\ cf_writes[1].url = cf_workers[2].url
    /\ cf_queue = <<>>

\* ------------------------------------------------------------------------
\* The console pipeline: main.main (src/main.py 24-395), from the task list
\* it has collected to the report it saves.
\* ------------------------------------------------------------------------
\* a task_info: its source path, the report row and column it fills, and
\* whether its Drive folder could be created
CsTask(path, folder, idx, drive) ==
    [source_path |-> path, drive_subfolder_name |-> folder, local_idx |-> idx,
     drive_subfolder_id |-> drive]

\* the task lists a run can collect; the last ones list one source directory
\* under two folder names, so that two tasks share a source path
CsTaskLists ==
    {<<>>,
     <<CsTask(1, "p", 0, TRUE)>>,
     <<CsTask(1, "p", 0, FALSE)>>,
     <<CsTask(1, "p", 0, TRUE), CsTask(2, "p", 1, TRUE)>>,
     <<CsTask(1, "p", 0, TRUE), CsTask(2, "q", 0, FALSE)>>,
     <<CsTask(1, "p", 0, TRUE), CsTask(2, "p", 1, FALSE), CsTask(3, "q", 0, TRUE)>>,
     <<CsTask(1, "p", 0, TRUE), CsTask(1, "q", 0, TRUE)>>}

\* what the user can type at the prompt
CsAnswers ==
    {<<"y">>, <<"Y">>, <<" ", "y", "e", "s">>, <<"Y", "E", "S">>, <<"n">>, <<>>}

\* what one Stage 1 task can do: process_image returns true or false, or
\* raises, or ensure_dir raises before the try block
Stage1Outcomes == {"ok", "failed", "raised", "ensure_dir_raised"}

\* what one Stage 2 task can do
Stage2Outcomes == {"composited", "not_composited", "raised"}

CsStage2Events == {"prompt", "composite", "upload", "report"}

\* report_aggregator gets an entry for every folder while the tasks are collected
CsFolders == {cs_tasks[i].drive_subfolder_name : i \in 1..Len(cs_tasks)}

\* the most image files an earlier run can have left in the output directory
MaxStale == 1

CsInit ==
    /\ GuiIdle /\ PiIdle /\ SoIdle /\ CcIdle /\ WfIdle /\ PwIdle /\ WkIdle /\ DrIdle
    /\ VrIdle /\ CfIdle /\ UpIdle /\ UcIdle /\ DlIdle /\ GlIdle /\ UsIdle /\ FtIdle /\ CoIdle /\ RsIdle
    /\ cs_pc = "config"
    /\ cs_tasks \in CsTaskLists
    /\ cs_configured \in BOOLEAN
    /\ (cs_tasks = <<>> => ~cs_configured)
    /\ cs_idx = 0
    /\ cs_results = {}
    /\ cs_failures = <<>>
    /\ cs_report = {}
    /\ cs_events = <<>>
    /\ cs_bad = FALSE
    /\ cs_asked = FALSE
    /\ cs_answer = <<>>
    /\ cs_stale \in 0..MaxStale
    /\ cs_actual = -1
    /\ cs_steps = <<>>

\* the search for the global backend configuration: without it main returns
CsFindConfig ==
    /\ cs_pc = "config"
    /\ cs_pc' = IF cs_configured THEN "stage1" ELSE "done"
    /\ cs_idx' = 1
    /\ UNCHANGED <<cs_tasks, cs_configured, cs_results, cs_failures, cs_report,
                   cs_events, cs_bad, csLog>>
    /\ UNCHANGED notCs

\* C20 mutant: a false return of process_image counts as a success
ProcessSucceededAlways(outcome) == TRUE

\* if comfyui_client.process_image(...)
ProcessSucceeded(outcome) == outcome = "ok"

\* one pass of the Stage 1 loop
CsStage1Task ==
    /\ cs_pc = "stage1"
    /\ cs_idx <= Len(cs_tasks)
    /\ \E outcome \in Stage1Outcomes :
        LET task == cs_tasks[cs_idx]
        IN  /\ cs_bad' = (cs_bad \/ outcome # "ok")
            /\ IF outcome = "ensure_dir_raised"
               THEN /\ cs_pc' = "crashed"
                    /\ UNCHANGED <<cs_idx, cs_results, cs_failures, cs_events,
                                   cs_steps>>
               ELSE /\ cs_pc' = "stage1"
                    /\ cs_idx' = cs_idx + 1
                    /\ cs_events' = Append(cs_events, "generate")
                    /\ cs_steps' = Append(cs_steps,
                                          [task |-> cs_idx, step |-> "generate"])
                    /\ IF outcome = "raised"
                       THEN /\ cs_failures' = Append(cs_failures, cs_idx)
                            /\ UNCHANGED cs_results
                       ELSE IF ProcessSucceeded(outcome)
                       THEN /\ cs_results' = cs_results \union {task.source_path}
                            /\ UNCHANGED cs_failures
                       ELSE /\ cs_failures' = Append(cs_failures, cs_idx)
                            /\ UNCHANGED cs_results
    /\ UNCHANGED <<cs_tasks, cs_configured, cs_report, cs_asked, cs_answer,
                   cs_stale, cs_actual>>
    /\ UNCHANGED notCs

\* if stage1_failures: ... return
CsFailureCheck ==
    /\ cs_pc = "stage1"
    /\ cs_idx > Len(cs_tasks)
    /\ cs_pc' = IF cs_failures # <<>> THEN "done" ELSE "verify"
    /\ UNCHANGED <<cs_tasks, cs_configured, cs_idx, cs_results, cs_failures,
                   cs_report, cs_events, cs_bad, csLog>>
    /\ UNCHANGED notCs

\* the os.walk count of the image files under global_stage1_dir: one file
\* for each source path that has an output, and the files that were there
ActualOutputFiles == Cardinality(cs_results) + cs_stale

\* output_count != source_count
CountMismatch(output_count, source_count) == output_count # source_count

\* the Stage 1 validation: the file count is taken and logged, then
\* if output_count != source_count: ... return
CsVerify ==
    /\ cs_pc = "verify"
    /\ cs_actual' = ActualOutputFiles
    /\ cs_pc' = IF CountMismatch(Cardinality(cs_results), Len(cs_tasks))
                 THEN "done" ELSE "prompt"
    /\ UNCHANGED <<cs_tasks, cs_configured, cs_idx, cs_results, cs_failures,
                   cs_report, cs_events, cs_bad, cs_asked, cs_answer, cs_stale,
                   cs_steps>>
    /\ UNCHANGED notCs

\* C21 mutant: every answer confirms
ConfirmedAlways(user_input) == TRUE

\* input(">>> ").strip().lower() in ('y', 'yes')
Confirmed(user_input) == Lower(Strip(user_input)) \in {<<"y">>, <<"y", "e", "s">>}

\* the confirmation prompt
CsPrompt ==
    /\ cs_pc = "prompt"
    /\ \E user_input \in CsAnswers :
        /\ cs_pc' = IF Confirmed(user_input) THEN "stage2" ELSE "done"
        /\ cs_answer' = user_input
    /\ cs_asked' = TRUE
    /\ cs_idx' = 1
    /\ cs_events' = Append(cs_events, "prompt")
    /\ UNCHANGED <<cs_tasks, cs_configured, cs_results, cs_failures, cs_report,
                   cs_bad, cs_stale, cs_actual, cs_steps>>
    /\ UNCHANGED notCs

\* report_aggregator[folder][column] = link
CsRecord(report, task, link) ==
    {r \in report : ~(r.folder = task.drive_subfolder_name
                      /\ r.col = task.local_idx + 1)}
        \union {[folder |-> task.drive_subfolder_name,
                 col |-> task.local_idx + 1, link |-> link]}

\* C28 mutant: the upload is made before the compositing
Stage2StepsUploadFirst(idx, upload) ==
    (IF upload THEN <<[task |-> idx, step |-> "upload"]>> ELSE <<>>)
        \o <<[task |-> idx, step |-> "caption"]>>

\* the calls one Stage 2 pass makes: processor.process_image, then
\* uploader.upload_file when there is something to upload
Stage2Steps(idx, upload) ==
    <<[task |-> idx, step |-> "caption"]>>
        \o (IF upload THEN <<[task |-> idx, step |-> "upload"]>> ELSE <<>>)

\* one pass of the Stage 2 loop
CsStage2Task ==
    /\ cs_pc = "stage2"
    /\ cs_idx <= Len(cs_tasks)
    /\ LET task == cs_tasks[cs_idx]
       IN  IF task.source_path \notin cs_results
           THEN UNCHANGED <<cs_report, cs_events, cs_steps>>
           ELSE \E outcome \in Stage2Outcomes, uploaded \in BOOLEAN :
                   LET upload == outcome = "composited" /\ task.drive_subfolder_id
                       link == IF outcome # "composited" THEN "Processing Failed"
                               ELSE IF upload /\ uploaded THEN "link"
                               ELSE "Upload Skipped/Failed"
                   IN  /\ (~upload => ~uploaded)
                       /\ cs_events' = cs_events \o <<"composite">>
                                       \o (IF upload THEN <<"upload">> ELSE <<>>)
                       /\ cs_steps' = cs_steps \o Stage2Steps(cs_idx, upload)
                       /\ cs_report' = CsRecord(cs_report, task, link)
    /\ cs_idx' = cs_idx + 1
    /\ UNCHANGED <<cs_pc, cs_tasks, cs_configured, cs_results, cs_failures, cs_bad,
                   cs_asked, cs_answer, cs_stale, cs_actual>>
    /\ UNCHANGED notCs

\* the report is written when report_aggregator has a folder
CsSaveReport ==
    /\ cs_pc = "stage2"
    /\ cs_idx > Len(cs_tasks)
    /\ cs_pc' = "done"
    /\ cs_events' = IF CsFolders # {} THEN Append(cs_events, "report") ELSE cs_events
    /\ UNCHANGED <<cs_tasks, cs_configured, cs_idx, cs_results, cs_failures,
                   cs_report, cs_bad, csLog>>
    /\ UNCHANGED notCs

CsNext ==
    \/ CsFindConfig
    \/ CsStage1Task
    \/ CsFailureCheck
    \/ CsVerify
    \/ CsPrompt
    \/ CsStage2Task
    \/ CsSaveReport

SpecConsole == CsInit /\ [][CsNext]_vars

\* C20: once a Stage 1 task has failed or raised, the run has made and makes
\* no confirmation prompt, no compositing, no upload and no report write, it
\* never reaches the prompt or Stage 2, and nothing is put in the report.
C20_AbortBeforeStage2 ==
    cs_bad =>
        /\ \A i \in 1..Len(cs_events) : cs_events[i] \notin CsStage2Events
        /\ cs_pc \notin {"verify", "prompt", "stage2"}
        /\ cs_report = {}

\* C20 witness: a run in which one task succeeded and another failed has ended
C20_Witness ==
    /\ cs_bad
    /\ cs_pc = "done"
    /\ cs_results # {}
    /\ Len(cs_failures) = 1
    /\ cs_events = <<"generate", "generate">>

\* the run has started Stage 2 or done something that belongs to it
C21_Stage2Begun ==
    \/ cs_pc = "stage2"
    \/ \E i \in 1..Len(cs_events) : cs_events[i] \in {"composite", "upload", "report"}

\* the answers that confirm: y or yes, in either case, with blanks around
C21_Yes ==
    {<<"y">>, <<"Y">>, <<" ", "y", "e", "s">>, <<"Y", "E", "S">>}

\* C21: Stage 2 begins only after Stage 1 succeeded for every task and the
\* operator's input, trimmed and lower-cased, is y or yes; after any other
\* input the run has ended with no compositing, no upload and no report write.
C21_ConfirmationGate ==
    /\ C21_Stage2Begun =>
           /\ ~cs_bad
           /\ Cardinality({i \in 1..Len(cs_steps) : cs_steps[i].step = "generate"})
                  >= Len(cs_tasks)
           /\ \A i \in 1..Len(cs_tasks) : cs_tasks[i].source_path \in cs_results
           /\ cs_asked
           /\ cs_answer \in C21_Yes
           /\ Lower(Strip(cs_answer)) \in {<<"y">>, <<"y", "e", "s">>}
    /\ (cs_asked /\ cs_answer \notin C21_Yes) =>
           /\ cs_pc = "done"
           /\ ~C21_Stage2Begun
           /\ cs_report = {}

\* C21 witness: the operator typed " yes" and Stage 2 composited an image
C21_Witness ==
    /\ cs_answer = <<" ", "y", "e", "s">>
    /\ \E i \in 1..Len(cs_events) : cs_events[i] = "composite"

\* C21 second witness state: the operator typed n and the run has ended
C21_Declined == cs_asked /\ cs_answer = <<"n">> /\ cs_pc = "done"

\* C22 (first half): when the number of source paths with an output differs
\* from the number of tasks, the validation ends the run before the prompt.
C22_ResultCountGuardsPrompt ==
    (cs_actual # -1 /\ Cardinality(cs_results) # Len(cs_tasks)) =>
        /\ cs_pc = "done"
        /\ ~cs_asked
        /\ \A i \in 1..Len(cs_events) : cs_events[i] = "generate"

\* C22: the validation ends the run before the confirmation prompt whenever
\* the number of successfully processed tasks differs from the number of
\* source tasks, and also whenever the recursive count of image files in the
\* stage-1 output directory differs from it.
C22_CountsGuardPrompt ==
    (cs_actual # -1
     /\ (Cardinality(cs_results) # Len(cs_tasks) \/ cs_actual # Len(cs_tasks))) =>
        /\ cs_pc = "done"
        /\ ~cs_asked
        /\ \A i \in 1..Len(cs_events) : cs_events[i] = "generate"

\* ------------------------------------------------------------------------
\* upload_file of the two cloud backends (src/drive_uploader.py 122-166,
\* src/oss_uploader.py 86-143).
\* ------------------------------------------------------------------------
\* max_retries
UploadMaxRetries == 3

UploadBackends == {"drive", "oss"}

\* how one pass of the retry loop can end: the file was stored, the request
\* raised, it returned a status other than 200 (put_object_from_file only),
\* or the file could not be opened again for the retry (DriveUploader builds
\* a new MediaFileUpload before the sleep; put_object_from_file raises)
UploadOutcomes(backend, attempt, exists) ==
    IF backend = "oss"
    THEN IF exists THEN {"stored", "raised", "status"} ELSE {"raised"}
    ELSE IF attempt > 0 /\ ~exists THEN {"media_raised"} ELSE {"stored", "raised"}

UpInit ==
    /\ UcIdle /\ DlIdle /\ GlIdle /\ UsIdle /\ FtIdle /\ CoIdle /\ RsIdle
    /\ GuiIdle /\ PiIdle /\ SoIdle /\ CcIdle /\ WfIdle /\ PwIdle /\ WkIdle /\ DrIdle
    /\ VrIdle /\ CfIdle /\ CsIdle
    /\ up_backend \in UploadBackends
    /\ up_ready \in BOOLEAN
    /\ up_exists \in BOOLEAN
    /\ up_pc = "start"
    /\ up_attempt = 0
    /\ up_sleeps = <<>>
    /\ up_log = <<>>
    /\ up_result = "none"
    /\ up_folder \in {"", "f"}
    /\ up_file = ""
    /\ up_public = FALSE

\* upload_file up to its retry loop.  OSSUploader tests os.path.exists;
\* DriveUploader builds MediaFileUpload(file_path), which opens the file,
\* outside any try block.
UploadBegin ==
    /\ up_pc = "start"
    /\ IF ~up_ready
       THEN up_pc' = "done" /\ up_result' = "None"
       ELSE IF up_exists
       THEN up_pc' = "loop" /\ up_result' = "none"
       ELSE IF up_backend = "oss"
       THEN up_pc' = "done" /\ up_result' = "None"
       ELSE up_pc' = "done" /\ up_result' = "raised"
    /\ UNCHANGED <<up_backend, up_ready, up_exists, up_attempt, up_sleeps, up_log,
                   up_folder, up_file, up_public>>
    /\ UNCHANGED notUp

\* time.sleep(2 * attempt)
Backoff(attempt) == 2 * attempt

\* the id of the descriptor: the Drive file id, or the OSS object key, which
\* is the file name under the folder prefix when there is one
FileId(backend, folder) ==
    IF backend = "drive" THEN "drive_id"
    ELSE IF folder # "" THEN "f/name" ELSE "name"

\* one pass of "for attempt in range(max_retries)"
UploadAttempt ==
    /\ up_pc = "loop"
    /\ up_attempt < UploadMaxRetries
    /\ \E outcome \in UploadOutcomes(up_backend, up_attempt, up_exists),
          public \in BOOLEAN :
        /\ (public => outcome = "stored" /\ up_backend = "drive")
        /\ up_public' = public
        /\ up_file' = IF outcome = "stored" THEN FileId(up_backend, up_folder) ELSE ""
        /\ up_sleeps' = IF up_attempt > 0 /\ outcome # "media_raised"
                        THEN Append(up_sleeps, Backoff(up_attempt))
                        ELSE up_sleeps
        /\ up_log' = Append(up_log, [attempt |-> up_attempt, outcome |-> outcome])
        /\ IF outcome = "stored"
           THEN /\ up_pc' = "done"
                /\ up_result' = "file"
                /\ UNCHANGED up_attempt
           ELSE IF up_attempt = UploadMaxRetries - 1
           THEN /\ up_pc' = "done"
                /\ up_result' = "None"
                /\ UNCHANGED up_attempt
           ELSE /\ up_attempt' = up_attempt + 1
                /\ UNCHANGED <<up_pc, up_result>>
    /\ UNCHANGED <<up_backend, up_ready, up_exists, up_folder>>
    /\ UNCHANGED notUp

\* the file is removed while the upload is under way
FileRemoved ==
    /\ up_pc = "loop"
    /\ up_exists
    /\ up_exists' = FALSE
    /\ UNCHANGED <<up_backend, up_ready, up_pc, up_attempt, up_sleeps, up_log,
                   up_result, up_folder, up_file, up_public>>
    /\ UNCHANGED notUp

UpNext == UploadBegin \/ UploadAttempt \/ FileRemoved

SpecUpload == UpInit /\ [][UpNext]_vars

\* the passes of the retry loop that went as far as the sleep
C23_Slept == {i \in 2..Len(up_log) : up_log[i].outcome # "media_raised"}

\* the retry loop as the claim describes it: at most 3 attempts, numbered
\* 0, 1, 2, nothing after a success, a sleep of 2k seconds before the
\* request of attempt k, the descriptor on success and None on exhaustion
C23_Retries ==
    /\ Len(up_log) <= 3
    /\ \A i \in 1..Len(up_log) : up_log[i].attempt = i - 1
    /\ \A i \in 1..Len(up_log) : up_log[i].outcome = "stored" => i = Len(up_log)
    /\ Len(up_sleeps) = Cardinality(C23_Slept)
    /\ \A j \in 1..Len(up_sleeps) :
           \E i \in C23_Slept :
               /\ Cardinality({h \in C23_Slept : h <= i}) = j
               /\ up_sleeps[j] = 2 * (i - 1)
    /\ up_result = "file" <=>
           (up_log # <<>> /\ up_log[Len(up_log)].outcome = "stored")
    /\ (Len(up_log) = 3 /\ up_log[3].outcome # "stored") => up_result = "None"
    /\ up_result = "None" =>
           (up_log = <<>> \/ (Len(up_log) = 3 /\ up_log[3].outcome # "stored"))

\* C23: upload_file on either backend makes at most 3 upload attempts,
\* sleeping 2k seconds before attempt k, returns the file descriptor at the
\* first successful attempt without further attempts, returns None once all
\* 3 attempts have failed, and never raises to the pipeline.
C23_UploadRetries ==
    /\ C23_Retries
    /\ up_result # "raised"

\* ------------------------------------------------------------------------
\* UpdateCheckWorker.run (src/updater.py 94-141).
\* ------------------------------------------------------------------------
\* what requests.get and resp.json() can give
CheckStatuses ==
    {"200", "403", "404", "500", "connection_error", "timeout", "bad_json"}

\* the tag names a release can carry
ReleaseTags ==
    {<<"v", "1", ".", "3", ".", "0">>,
     <<"1", ".", "3", ".", "0">>,
     <<"v", "1", ".", "2", ".", "0">>,
     <<"1", ".", "1", ".", "9">>,
     <<"n", "i", "g", "h", "t", "l", "y">>,
     <<>>}

Asset(name, url) == [name |-> name, url |-> url]

\* the asset lists a release can carry
AssetLists ==
    {<<>>,
     <<Asset(<<"a", ".", "e", "x", "e">>, "u1")>>,
     <<Asset(<<"a", ".", "z", "i", "p">>, "u1")>>,
     <<Asset(<<"a", ".", "e", "x", "e">>, "u1"), Asset(<<"b", ".", "z", "i", "p">>, "u2")>>,
     <<Asset(<<"a", ".", "z", "i", "p">>, "u1"), Asset(<<"b", ".", "z", "i", "p">>, "u2")>>,
     <<Asset(<<"a", ".", "Z", "I", "P">>, "u1"), Asset(<<"b", ".", "z", "i", "p">>, "u2")>>,
     <<Asset(<<"z", "i", "p">>, "u1"), Asset(<<"a", ".", "z", "i", "p", ".", "s">>, "u2")>>}

UcInit ==
    /\ DlIdle /\ GlIdle /\ UsIdle /\ FtIdle /\ CoIdle /\ RsIdle
    /\ GuiIdle /\ PiIdle /\ SoIdle /\ CcIdle /\ WfIdle /\ PwIdle /\ WkIdle /\ DrIdle
    /\ VrIdle /\ CfIdle /\ CsIdle /\ UpIdle
    /\ uc_pc = "start"
    /\ uc_current \in {<<"1", ".", "2", ".", "0">>, <<"1", ".", "3", ".", "0">>}
    /\ uc_status \in CheckStatuses
    /\ uc_tag \in ReleaseTags
    /\ uc_assets \in AssetLists
    /\ uc_emitted = <<>>

\* str.endswith(suffix)
EndsWith(str, suffix) ==
    /\ Len(str) >= Len(suffix)
    /\ SubSeq(str, Len(str) - Len(suffix) + 1, Len(str)) = suffix

\* C24 mutant: any asset counts as the update package
IsZipAlways(name) == TRUE

\* asset["name"].lower().endswith(".zip")
IsZip(name) == EndsWith(Lower(name), <<".", "z", "i", "p">>)

\* the loop over the assets: the url of the first zip asset, "" without one
DownloadUrl(assets) ==
    LET zips == {i \in 1..Len(assets) : IsZip(assets[i].name)}
    IN  IF zips = {} THEN ""
        ELSE assets[CHOOSE i \in zips : \A j \in zips : i <= j].url

Emit(signal, message, url) == [signal |-> signal, message |-> message, url |-> url]

\* the message check_failed carries when the release has no zip asset
NoZipMessage(assets) == "no_zip_in_release"

\* what run emits
CheckResult ==
    IF uc_status = "connection_error" THEN Emit("check_failed", "no_network", "")
    ELSE IF uc_status = "timeout" THEN Emit("check_failed", "timeout", "")
    ELSE IF uc_status = "403" THEN Emit("check_failed", "rate_limit", "")
    ELSE IF uc_status = "404" THEN Emit("check_failed", "not_found", "")
    ELSE IF uc_status # "200" /\ uc_status # "bad_json"
    THEN Emit("check_failed", "status_code_" \o uc_status, "")
    ELSE IF uc_status = "bad_json" THEN Emit("check_failed", "exception", "")
    ELSE IF ~IsNewer(LStripV(uc_tag), uc_current) THEN Emit("no_update", "", "")
    ELSE IF DownloadUrl(uc_assets) = ""
    THEN Emit("check_failed", NoZipMessage(uc_assets), "")
    ELSE Emit("update_available", "", DownloadUrl(uc_assets))

\* one run of the worker
UpdateCheckRun ==
    /\ uc_pc = "start"
    /\ uc_pc' = "done"
    /\ uc_emitted' = Append(uc_emitted, CheckResult)
    /\ UNCHANGED <<uc_current, uc_status, uc_tag, uc_assets>>
    /\ UNCHANGED notUc

UcNext == UpdateCheckRun

SpecUpdateCheck == UcInit /\ [][UcNext]_vars

\* the release is newer than the running version (the tags of ReleaseTags
\* that stand for 1.3.0, against 1.2.0)
C24_Newer ==
    /\ uc_status = "200"
    /\ uc_tag \in {<<"v", "1", ".", "3", ".", "0">>, <<"1", ".", "3", ".", "0">>}
    /\ uc_current = <<"1", ".", "2", ".", "0">>

\* the positions of the assets whose name ends in .zip, in either case
C24_Zips ==
    {i \in 1..Len(uc_assets) :
        \E n \in 4..Len(uc_assets[i].name) :
            /\ n = Len(uc_assets[i].name)
            /\ uc_assets[i].name[n - 3] = "."
            /\ uc_assets[i].name[n - 2] \in {"z", "Z"}
            /\ uc_assets[i].name[n - 1] \in {"i", "I"}
            /\ uc_assets[i].name[n] \in {"p", "P"}}

\* C24: every run emits exactly one of update_available, no_update and
\* check_failed, once; 403, 404 and any other status but 200 give
\* check_failed, each with its own message; a 200 response with a version
\* that is not newer gives no_update; a newer version with a zip asset gives
\* update_available with the url of the first asset whose name ends in .zip.
C24_OneSignal ==
    uc_pc = "done" =>
        /\ Len(uc_emitted) = 1
        /\ uc_emitted[1].signal \in {"update_available", "no_update", "check_failed"}
        /\ uc_status = "403" =>
               /\ uc_emitted[1].signal = "check_failed"
               /\ uc_emitted[1].message = "rate_limit"
        /\ uc_status = "404" =>
               /\ uc_emitted[1].signal = "check_failed"
               /\ uc_emitted[1].message = "not_found"
        /\ uc_status = "500" =>
               /\ uc_emitted[1].signal = "check_failed"
               /\ uc_emitted[1].message \notin {"rate_limit", "not_found"}
               /\ uc_emitted[1].message = "status_code_500"
        /\ (uc_status = "200" /\ ~C24_Newer) => uc_emitted[1].signal = "no_update"
        /\ (C24_Newer /\ C24_Zips # {}) =>
               /\ uc_emitted[1].signal = "update_available"
               /\ \E i \in C24_Zips :
                      /\ \A j \in C24_Zips : i <= j
                      /\ uc_emitted[1].url = uc_assets[i].url
        /\ uc_emitted[1].signal = "update_available" => (C24_Newer /\ C24_Zips # {})

\* C24 witness: a newer release whose second asset is the first zip
C24_Witness ==
    /\ uc_pc = "done"
    /\ C24_Newer
    /\ Len(uc_assets) = 2
    /\ C24_Zips = {2}
    /\ uc_emitted = <<Emit("update_available", "", "u2")>>

\* a newer release without a zip asset was checked
C25_NoZip == uc_pc = "done" /\ C24_Newer /\ C24_Zips = {}

\* an asset list without a zip asset
C25_ZipFree(assets) == \A i \in 1..Len(assets) : ~IsZip(assets[i].name)

\* C25: when the latest release is newer but has no zip asset, the run
\* signals failure, and its message is not the one a release of the other
\* kind gets (no assets at all against assets none of which is a zip).
C25_MessagesDiffer ==
    C25_NoZip =>
        /\ uc_emitted[1].signal = "check_failed"
        /\ \A other \in AssetLists :
               (C25_ZipFree(other) /\ (other = <<>>) # (uc_assets = <<>>)) =>
                   NoZipMessage(other) # uc_emitted[1].message

\* ------------------------------------------------------------------------
\* DownloadWorker (src/updater.py 148-191).
\* ------------------------------------------------------------------------
MaxChunks == 4

DlInit ==
    /\ GlIdle /\ UsIdle /\ FtIdle /\ CoIdle /\ RsIdle
    /\ GuiIdle /\ PiIdle /\ SoIdle /\ CcIdle /\ WfIdle /\ PwIdle /\ WkIdle /\ DrIdle
    /\ VrIdle /\ CfIdle /\ CsIdle /\ UpIdle /\ UcIdle
    /\ dl_pc = "start"
    /\ dl_chunks \in 0..MaxChunks
    /\ dl_written = 0
    /\ dl_cancelled = FALSE
    /\ dl_file \in {"absent", "old"}
    /\ dl_emitted = <<>>
    /\ dl_progress = <<>>
    /\ dl_seen = FALSE
    /\ dl_raised = FALSE
    /\ dl_kept = FALSE
    /\ dl_dialog = "open"
    /\ dl_handled = 0
    /\ dl_applied = FALSE
    /\ dl_quit = FALSE
    /\ dl_inflight = FALSE

\* UpdateDialog._cancel, the slot of the cancel button from _start_download
\* until _on_failed reconnects it: DownloadWorker.cancel(), then reject()
DownloadCancel ==
    /\ dl_dialog = "open"
    /\ dl_handled = 0
    /\ dl_cancelled' = TRUE
    /\ dl_dialog' = "rejected"
    /\ dl_inflight' = (dl_pc # "done")
    /\ UNCHANGED <<dl_pc, dl_chunks, dl_written, dl_file, dl_emitted, dl_progress,
                   dl_seen, dl_raised, dl_kept, dl_handled, dl_applied, dl_quit>>
    /\ UNCHANGED notDl

\* _cleanup: the file at save_path after it, when os.remove works or fails
Cleanup(file, remove_fails) ==
    IF file = "absent" THEN "absent"
    ELSE IF remove_fails THEN file ELSE "absent"

\* run up to the loop: the request, raise_for_status, the content length and
\* open(save_path, "wb"); any of them can raise
DownloadRequest ==
    /\ dl_pc = "start"
    /\ \E raises \in BOOLEAN, opened \in BOOLEAN, remove_fails \in BOOLEAN :
        /\ (opened => raises)
        /\ (remove_fails => raises /\ (opened \/ dl_file # "absent"))
        /\ IF raises
           THEN /\ dl_pc' = "done"
                /\ dl_raised' = TRUE
                /\ dl_file' = Cleanup(IF opened THEN "partial" ELSE dl_file,
                                      remove_fails)
                /\ dl_kept' = remove_fails
                /\ dl_emitted' = Append(dl_emitted, "download_failed")
           ELSE /\ dl_pc' = "loop"
                /\ dl_file' = "partial"
                /\ UNCHANGED <<dl_raised, dl_kept, dl_emitted>>
    /\ UNCHANGED <<dl_chunks, dl_written, dl_cancelled, dl_progress, dl_seen>>
    /\ UNCHANGED dlDialog
    /\ UNCHANGED notDl

\* C26 mutant: the flag is never looked at
CancelSeenNever(cancelled) == FALSE

\* if self._cancelled
CancelSeen(cancelled) == cancelled

\* one pass of the loop over resp.iter_content: the next chunk arrives or the
\* stream raises; with the flag set the file is closed and removed; else the
\* chunk is written, which can raise
DownloadChunk ==
    /\ dl_pc = "loop"
    /\ dl_written < dl_chunks
    /\ \E outcome \in {"written", "stream_raises", "write_raises"},
          remove_fails \in BOOLEAN :
        IF outcome = "stream_raises"
        THEN /\ dl_pc' = "done"
             /\ dl_raised' = TRUE
             /\ dl_file' = Cleanup(dl_file, remove_fails)
             /\ dl_kept' = remove_fails
             /\ dl_emitted' = Append(dl_emitted, "download_failed")
             /\ UNCHANGED <<dl_written, dl_progress, dl_seen>>
        ELSE /\ dl_seen' = dl_cancelled
             /\ IF CancelSeen(dl_cancelled)
                THEN /\ outcome = "written"
                     /\ dl_pc' = "done"
                     /\ dl_file' = Cleanup(dl_file, remove_fails)
                     /\ dl_kept' = remove_fails
                     /\ dl_emitted' = Append(dl_emitted, "download_failed")
                     /\ UNCHANGED <<dl_written, dl_progress, dl_raised>>
                ELSE IF outcome = "write_raises"
                THEN /\ dl_pc' = "done"
                     /\ dl_raised' = TRUE
                     /\ dl_file' = Cleanup(dl_file, remove_fails)
                     /\ dl_kept' = remove_fails
                     /\ dl_emitted' = Append(dl_emitted, "download_failed")
                     /\ UNCHANGED <<dl_written, dl_progress>>
                ELSE /\ ~remove_fails
                     /\ dl_written' = dl_written + 1
                     /\ dl_progress' = Append(dl_progress, dl_written + 1)
                     /\ UNCHANGED <<dl_pc, dl_file, dl_kept, dl_emitted, dl_raised>>
    /\ UNCHANGED <<dl_chunks, dl_cancelled>>
    /\ UNCHANGED dlDialog
    /\ UNCHANGED notDl

\* the stream ends: the file is closed and download_complete emitted
DownloadEnd ==
    /\ dl_pc = "loop"
    /\ dl_written = dl_chunks
    /\ dl_pc' = "done"
    /\ dl_file' = "complete"
    /\ dl_emitted' = Append(dl_emitted, "download_complete")
    /\ UNCHANGED <<dl_chunks, dl_written, dl_cancelled, dl_progress, dl_seen,
                   dl_raised, dl_kept>>
    /\ UNCHANGED dlDialog
    /\ UNCHANGED notDl

\* the worker's signals reach the dialog's slots through the event loop of
\* the GUI thread, some time after they were emitted
NextSignal == dl_emitted[dl_handled + 1]

\* UpdateDialog._on_complete: hand over to the update script and quit; the
\* hand-over can raise, and then a warning is shown and the dialog accepted
OnComplete ==
    /\ dl_handled < Len(dl_emitted)
    /\ NextSignal = "download_complete"
    /\ ~dl_quit
    /\ dl_handled' = dl_handled + 1
    /\ dl_applied' = TRUE
    /\ \E raises \in BOOLEAN :
         IF raises
         THEN dl_dialog' = "accepted" /\ UNCHANGED dl_quit
         ELSE dl_quit' = TRUE /\ UNCHANGED dl_dialog
    /\ UNCHANGED <<dl_pc, dl_chunks, dl_written, dl_cancelled, dl_file, dl_emitted,
                   dl_progress, dl_seen, dl_raised, dl_kept, dl_inflight>>
    /\ UNCHANGED notDl

\* UpdateDialog._on_failed: the buttons go back to retry and skip
OnFailed ==
    /\ dl_handled < Len(dl_emitted)
    /\ NextSignal = "download_failed"
    /\ dl_handled' = dl_handled + 1
    /\ UNCHANGED <<dl_pc, dl_chunks, dl_written, dl_cancelled, dl_file, dl_emitted,
                   dl_progress, dl_seen, dl_raised, dl_kept, dl_dialog, dl_applied,
                   dl_quit, dl_inflight>>
    /\ UNCHANGED notDl

DlNext ==
    \/ DownloadCancel
    \/ DownloadRequest
    \/ DownloadChunk
    \/ DownloadEnd
    \/ OnComplete
    \/ OnFailed

SpecDownload == DlInit /\ [][DlNext]_vars

\* one of the two signals, once, when the run has ended, and none before
C26_OneSignal ==
    /\ dl_pc # "done" => dl_emitted = <<>>
    /\ dl_pc = "done" =>
           /\ Len(dl_emitted) = 1
           /\ dl_emitted[1] \in {"download_complete", "download_failed"}

\* download_complete only after every chunk was written, and never in a run
\* that saw the flag or raised
C26_CompleteMeansAll ==
    (dl_emitted # <<>> /\ dl_emitted[1] = "download_complete") =>
        /\ dl_written = dl_chunks
        /\ dl_progress = [i \in 1..dl_chunks |-> i]
        /\ ~dl_seen
        /\ ~dl_raised

\* C26 as stated: every run emits exactly one of download_complete and
\* download_failed, once; if the flag is seen at a chunk boundary or the
\* transfer raises, the partial file is deleted and download_complete is not
\* emitted; download_complete is emitted only after every chunk was written.
C26_CancelDeletes ==
    /\ C26_OneSignal
    /\ C26_CompleteMeansAll
    /\ (dl_pc = "done" /\ (dl_seen \/ dl_raised)) =>
           /\ dl_emitted = <<"download_failed">>
           /\ dl_file = "absent"

\* C26 amended: as stated, but the partial file is deleted only if os.remove
\* succeeds; when it fails the failure is ignored and the file stays.
C26_CancelDeletesUnlessRemoveFails ==
    /\ C26_OneSignal
    /\ C26_CompleteMeansAll
    /\ (dl_pc = "done" /\ (dl_seen \/ dl_raised)) =>
           /\ dl_emitted = <<"download_failed">>
           /\ (dl_file = "absent" <=> ~dl_kept)

\* C26 witness: the flag was seen when the second chunk arrived, after the
\* first had been written, and the partial file was deleted
C26_Witness ==
    /\ dl_pc = "done"
    /\ dl_seen
    /\ dl_written = 1
    /\ dl_chunks = 2
    /\ dl_file = "absent"
    /\ dl_emitted = <<"download_failed">>

\* C33: if the operator cancels while the download is in flight,
\* apply_update_and_restart is never invoked for that download and the
\* application does not quit, under every interleaving of the click with the
\* chunk loop and the completion signal.
C33_CancelStopsUpdate == dl_inflight => (~dl_applied /\ ~dl_quit)

\* the same for the clicks the chunk loop saw at a chunk boundary
C33_SeenCancelStopsUpdate == (dl_inflight /\ dl_seen) => (~dl_applied /\ ~dl_quit)

\* ------------------------------------------------------------------------
\* Result rows of the worker's task loops (SpecWorker).
\* ------------------------------------------------------------------------
C27_IsStage1(row) == row.stage = 1

C27_IsStage2(row) == row.stage = 2

\* the tasks of the result_added signals of one stage, in order
C27_RowTasks(stage) ==
    LET rows == IF stage = 1 THEN SelectSeq(wk_rows, C27_IsStage1)
                ELSE SelectSeq(wk_rows, C27_IsStage2)
    IN  [i \in 1..Len(rows) |-> rows[i].task]

\* every task of each loop the run entered has its one row, in task order
C27_AllRows ==
    /\ wk_idx >= 1 => C27_RowTasks(1) = wk_tasks
    /\ wk_s2idx >= 1 =>
           C27_RowTasks(2) = [i \in 1..Len(wk_s2tasks) |-> wk_s2tasks[i].task]

\* C27: in a Stage 1, Stage 2 or manual Stage 2 run that reached its task
\* loop and was not stopped, exactly one result_added signal is emitted for
\* each task, in task order, whatever the outcome of the task.
C27_OneRowPerTask ==
    (wk_pc = "done" /\ ~wk_should_stop) => C27_AllRows

\* the same for the runs in which every task that began came to its row
\* (ensure_dir did not raise)
C27_OneRowPerTaskUnlessMakedirsRaises ==
    (wk_pc = "done" /\ ~wk_should_stop /\ Len(wk_begun) = Len(wk_rows)) =>
        C27_AllRows

\* ------------------------------------------------------------------------
\* Order of the backend calls of a console run (SpecConsole).
\* ------------------------------------------------------------------------
\* C28 as stated: for any two consecutive tasks of a run, every step of the
\* earlier task (generation, caption, upload) comes before any step of the
\* later task.
C28_TaskByTask ==
    \A i, j \in 1..Len(cs_steps) :
        (cs_steps[j].task = cs_steps[i].task + 1) => i < j

\* C28 amended: tasks are handled one at a time within each stage.  The
\* generation steps come in task order; the caption and upload steps come in
\* task order, a task's caption before its upload and both before the next
\* task's caption; and every generation step of the run comes before every
\* caption and upload step.
C28_StageByStage ==
    \A i, j \in 1..Len(cs_steps) :
        i < j =>
            /\ cs_steps[j].step = "generate" =>
                   /\ cs_steps[i].step = "generate"
                   /\ cs_steps[i].task < cs_steps[j].task
            /\ (cs_steps[i].step # "generate" /\ cs_steps[j].step # "generate") =>
                   \/ cs_steps[i].task < cs_steps[j].task
                   \/ /\ cs_steps[i].task = cs_steps[j].task
                      /\ cs_steps[i].step = "caption"
                      /\ cs_steps[j].step = "upload"

\* C28 witness: a run of two tasks generated both images, then captioned and
\* uploaded the first and captioned the second
C28_Witness ==
    /\ Len(cs_steps) >= 5
    /\ cs_steps[1] = [task |-> 1, step |-> "generate"]
    /\ cs_steps[2] = [task |-> 2, step |-> "generate"]
    /\ cs_steps[3] = [task |-> 1, step |-> "caption"]
    /\ cs_steps[4] = [task |-> 1, step |-> "upload"]
    /\ cs_steps[5] = [task |-> 2, step |-> "caption"]


-----------------------------------------------------------------------------
(***************************************************************************)
(* Gallery dialog: re-processing the checked images with another workflow. *)
(***************************************************************************)

\* Bound of the model: the number of images the gallery is opened with.
MaxGalleryImages == 3

GalleryWorkflows == {"", "wf"}

\* the list comprehension of _on_reprocess and _on_reprocess_complete:
\* the paths whose checkbox is checked, in grid order
RECURSIVE CheckedPaths(_, _)
CheckedPaths(image_paths, checkboxes) ==
    IF image_paths = <<>> THEN <<>>
    ELSE (IF Head(checkboxes) THEN <<Head(image_paths)>> ELSE <<>>)
             \o CheckedPaths(Tail(image_paths), Tail(checkboxes))

\* _build_gallery_grid: one new, unchecked checkbox per path
BuildGalleryGrid(image_paths) == [i \in 1..Len(image_paths) |-> FALSE]

GlInit ==
    /\ UsIdle /\ FtIdle /\ CoIdle /\ RsIdle
    /\ GuiIdle /\ PiIdle /\ SoIdle /\ CcIdle /\ WfIdle /\ PwIdle /\ WkIdle /\ DrIdle
    /\ VrIdle /\ CfIdle /\ CsIdle /\ UpIdle /\ UcIdle /\ DlIdle
    /\ gl_open = TRUE
    /\ \E n \in 1..MaxGalleryImages : gl_image_paths = [i \in 1..n |-> i]
    /\ gl_checkboxes = BuildGalleryGrid(gl_image_paths)
    /\ gl_running = FALSE
    /\ gl_selected_outputs = <<>>
    /\ gl_completed = FALSE
    /\ gl_submitted = <<>>
    /\ gl_touched = FALSE
    /\ gl_message = ""

\* the operator clicks one checkbox; the checkboxes stay enabled during a run
ToggleCheckbox ==
    /\ gl_open
    /\ \E i \in 1..Len(gl_checkboxes) :
           gl_checkboxes' = [gl_checkboxes EXCEPT ![i] = ~gl_checkboxes[i]]
    /\ gl_touched' = (gl_touched \/ gl_running)
    /\ UNCHANGED <<gl_open, gl_image_paths, gl_running, gl_selected_outputs,
                   gl_completed, gl_submitted, gl_message>>
    /\ UNCHANGED notGl

\* _select_all / _deselect_all
SelectAll(state) ==
    /\ gl_open
    /\ gl_checkboxes # [i \in 1..Len(gl_checkboxes) |-> state]
    /\ gl_checkboxes' = [i \in 1..Len(gl_checkboxes) |-> state]
    /\ gl_touched' = (gl_touched \/ gl_running)
    /\ UNCHANGED <<gl_open, gl_image_paths, gl_running, gl_selected_outputs,
                   gl_completed, gl_submitted, gl_message>>
    /\ UNCHANGED notGl

\* _on_reprocess: the button is disabled while a run is in flight
OnReprocess ==
    /\ gl_open
    /\ ~gl_running
    /\ \E wf_name \in GalleryWorkflows :
         LET selected == CheckedPaths(gl_image_paths, gl_checkboxes) IN
           IF selected = <<>>
           THEN /\ gl_message' = "select_images_first"
                /\ UNCHANGED <<gl_running, gl_selected_outputs, gl_touched>>
           ELSE IF wf_name = ""
           THEN /\ gl_message' = "select_a_workflow"
                /\ UNCHANGED <<gl_running, gl_selected_outputs, gl_touched>>
           ELSE /\ gl_running' = TRUE
                /\ gl_selected_outputs' = selected
                /\ gl_touched' = FALSE
                /\ UNCHANGED gl_message
    /\ UNCHANGED <<gl_open, gl_image_paths, gl_checkboxes, gl_completed, gl_submitted>>
    /\ UNCHANGED notGl

\* _refresh_gallery
RefreshGallery(paths) ==
    /\ gl_image_paths' = paths
    /\ gl_checkboxes' = BuildGalleryGrid(paths)

\* the worker emits all_done(success): _on_reprocess_complete
OnReprocessComplete ==
    /\ gl_running
    /\ \E success \in BOOLEAN :
           gl_message' = IF success THEN "all_reprocessed" ELSE "some_failed"
    /\ gl_running' = FALSE
    /\ LET reprocessed == CheckedPaths(gl_image_paths, gl_checkboxes) IN
           RefreshGallery(reprocessed)
    /\ gl_completed' = TRUE
    /\ gl_submitted' = gl_selected_outputs
    /\ gl_selected_outputs' = <<>>
    /\ UNCHANGED <<gl_open, gl_touched>>
    /\ UNCHANGED notGl

GlNext ==
    \/ ToggleCheckbox
    \/ SelectAll(TRUE)
    \/ SelectAll(FALSE)
    \/ OnReprocess
    \/ OnReprocessComplete

SpecGallery == GlInit /\ [][GlNext]_vars

\* C29: when a re-process run has completed, the gallery's image list is
\* exactly the list of images that were submitted to that run, whatever
\* checkbox changes were made while the run was in flight.
C29_NarrowsToSubmitted ==
    [][(gl_running /\ ~gl_running') => gl_image_paths' = gl_selected_outputs]_vars

\* the same for the runs during which no checkbox was changed
C29_NarrowsWhenUntouched ==
    [][(gl_running /\ ~gl_running' /\ ~gl_touched) =>
           gl_image_paths' = gl_selected_outputs]_vars

\* a run completed after a checkbox change in flight
C29_ChangedInFlight == gl_completed /\ gl_touched /\ ~gl_running


-----------------------------------------------------------------------------
(***************************************************************************)
(* The update script written by apply_update_and_restart: wait for the old *)
(* process, extract the archive, overwrite the program files, relaunch.    *)
(***************************************************************************)

\* "if %c% geq 30": the number of polls after which the script gives up
WaitLimit == 30

\* tasklist /FI "PID eq pid": the rows printed, one for the process if it exists
Tasklist(alive) == IF alive THEN <<"pid">> ELSE <<>>

\* ... | find /I "pid": errorlevel 0 when a line holds the pid, 1 otherwise
Find(rows) == IF \E i \in 1..Len(rows) : rows[i] = "pid" THEN 0 ELSE 1

GotoAlways(errorlevel) == TRUE

\* "if errorlevel 1 goto": taken when the errorlevel is 1 or more
IfErrorlevel1(errorlevel) == errorlevel >= 1

UsInit ==
    /\ FtIdle /\ CoIdle /\ RsIdle
    /\ GuiIdle /\ PiIdle /\ SoIdle /\ CcIdle /\ WfIdle /\ PwIdle /\ WkIdle /\ DrIdle
    /\ VrIdle /\ CfIdle /\ CsIdle /\ UpIdle /\ UcIdle /\ DlIdle /\ GlIdle
    /\ us_pc = "WAIT"
    /\ us_alive = TRUE
    /\ us_c = 0
    /\ us_polls = 0
    /\ us_sleeps = 0
    /\ us_absent = FALSE
    /\ us_log = <<>>
    /\ us_message = ""
    /\ us_zip = TRUE

\* the application exits some time after it has started the script
OldProcessExits ==
    /\ us_pc # "off"
    /\ us_alive
    /\ us_alive' = FALSE
    /\ UNCHANGED <<us_pc, us_c, us_polls, us_sleeps, us_absent, us_log, us_message,
                   us_zip>>
    /\ UNCHANGED notUs

\* one turn of the WAIT loop
Wait ==
    /\ us_pc = "WAIT"
    /\ us_polls' = us_polls + 1
    /\ LET rows == Tasklist(us_alive) IN
         /\ us_absent' = (us_absent \/ Find(rows) = 1)
         /\ IF IfErrorlevel1(Find(rows))
            THEN /\ us_pc' = "EXTRACT"
                 /\ UNCHANGED <<us_c, us_sleeps, us_message>>
            ELSE /\ us_c' = us_c + 1
                 /\ IF us_c + 1 >= WaitLimit
                    THEN /\ us_message' = "timeout"
                         /\ us_pc' = "END"
                         /\ UNCHANGED us_sleeps
                    ELSE /\ us_sleeps' = us_sleeps + 1
                         /\ UNCHANGED <<us_pc, us_message>>
    /\ UNCHANGED <<us_alive, us_log, us_zip>>
    /\ UNCHANGED notUs

\* EXTRACT: Expand-Archive into the temporary directory
Extract ==
    /\ us_pc = "EXTRACT"
    /\ us_log' = Append(us_log, "extract")
    /\ \E failed \in BOOLEAN :
         IF failed
         THEN us_message' = "extract_failed" /\ us_pc' = "END"
         ELSE UNCHANGED us_message /\ us_pc' = "OVERWRITE"
    /\ UNCHANGED <<us_alive, us_c, us_polls, us_sleeps, us_absent, us_zip>>
    /\ UNCHANGED notUs

\* xcopy of the extracted files over the program directory
Overwrite ==
    /\ us_pc = "OVERWRITE"
    /\ us_log' = Append(us_log, "overwrite")
    /\ \E failed \in BOOLEAN :
         IF failed
         THEN us_message' = "overwrite_failed" /\ us_pc' = "END"
         ELSE UNCHANGED us_message /\ us_pc' = "RELAUNCH"
    /\ UNCHANGED <<us_alive, us_c, us_polls, us_sleeps, us_absent, us_zip>>
    /\ UNCHANGED notUs

\* start "" of the new executable
Relaunch ==
    /\ us_pc = "RELAUNCH"
    /\ us_log' = Append(us_log, "relaunch")
    /\ us_pc' = "END"
    /\ UNCHANGED <<us_alive, us_c, us_polls, us_sleeps, us_absent, us_message, us_zip>>
    /\ UNCHANGED notUs

\* END: the temporary directory, the archive and the script are deleted
End ==
    /\ us_pc = "END"
    /\ us_zip' = FALSE
    /\ us_pc' = "exit"
    /\ UNCHANGED <<us_alive, us_c, us_polls, us_sleeps, us_absent, us_log, us_message>>
    /\ UNCHANGED notUs

UsNext ==
    \/ OldProcessExits
    \/ Wait
    \/ Extract
    \/ Overwrite
    \/ Relaunch
    \/ End

SpecUpdateScript == UsInit /\ [][UsNext]_vars

C30_Started(op) == \E i \in 1..Len(us_log) : us_log[i] = op

C30_GaveUp == us_c >= WaitLimit

\* C30: the script starts extraction and overwrite only after a poll found
\* the old process id absent; when the id was present at each of the 30
\* polls (one second apart) the script gives up with the timeout message
\* and starts no extraction, no overwrite and no relaunch.
C30_WaitsForOldProcess ==
    /\ (us_pc \in {"EXTRACT", "OVERWRITE", "RELAUNCH"} \/ us_log # <<>>) => us_absent
    /\ (us_polls >= WaitLimit /\ ~us_absent) =>
           /\ us_polls = WaitLimit
           /\ us_sleeps = WaitLimit - 1
           /\ us_pc \in {"END", "exit"}
           /\ us_message = "timeout"
           /\ us_log = <<>>
    /\ us_message = "timeout" => (C30_GaveUp /\ ~us_absent)

\* the script gave up while the old process was still there
C30_Witness ==
    /\ us_pc = "exit"
    /\ us_message = "timeout"
    /\ us_alive
    /\ us_polls = WaitLimit

\* the script went on to overwrite after the old process had gone
C30_Overwrote == C30_Started("overwrite") /\ us_absent /\ us_polls > 1

\* C39: the script deletes the downloaded zip only after the files were
\* copied and the relaunch was issued; after the timeout, a failed
\* extraction or a failed copy the zip is still where the message says.
C39_ZipKeptOnFailure ==
    /\ ~us_zip => (C30_Started("relaunch") /\ us_message = "")
    /\ us_message # "" => us_zip

\* what the script does: the zip is there until END and gone after it,
\* whichever way END was reached
C39_ZipDeletedAtEnd == us_zip <=> us_pc # "exit"

\* the extraction failed, its message named the zip, and the zip is gone
C39_ZipLostAfterFailure ==
    /\ us_pc = "exit"
    /\ us_message = "extract_failed"
    /\ ~C30_Started("overwrite")
    /\ ~us_zip


\* ------------------------------------------------------------------------
\* stage1_results of the pipeline worker (SpecWorker).
\* ------------------------------------------------------------------------
C34_Produced(row) == row.stage = 1 /\ row.status \in {"ok", "skipped_comfyui"}

\* the tasks a Stage 2 loop has begun, in order
C34_Stage2Begun ==
    LET begun == SelectSeq(wk_begun, C27_IsStage2)
    IN  [i \in 1..Len(begun) |-> begun[i].task]

C34_ReportReached == \E i \in 1..Len(wk_actions) : wk_actions[i].kind = "report"

\* C34: stage1_results has an entry for an image only if the image's Stage 1
\* output was produced in the run (backend success or rule-B copy), so that
\* failed, errored and rule-A-skipped tasks have none; a Stage 2 run takes
\* exactly the entries of stage1_results as its tasks, one task per entry.
C34_ResultsAreStage1Outputs ==
    /\ \A i, j \in 1..Len(wk_results) :
          i # j => wk_results[i].task # wk_results[j].task
    /\ wk_mode \in {"stage1", "full_auto"} =>
          \A i \in 1..Len(wk_results) :
              /\ \E r \in 1..Len(wk_rows) :
                    C34_Produced(wk_rows[r]) /\ wk_rows[r].task = wk_results[i].task
              /\ \E f \in wk_files : f.task = wk_results[i].task
              /\ ~IsRuleA(wk_results[i].task.img_name)
    /\ (wk_mode \in {"stage2", "full_auto"} /\ wk_s2idx >= 1) =>
          /\ wk_s2tasks = wk_results
          /\ Len(C34_Stage2Begun) <= Len(wk_results)
          /\ \A i \in 1..Len(C34_Stage2Begun) :
                C34_Stage2Begun[i] = wk_results[i].task
          /\ C34_ReportReached => Len(C34_Stage2Begun) = Len(wk_results)

\* a full run: the first image generated, the second failed, and Stage 2
\* went over the one entry
C34_Witness ==
    /\ wk_mode = "full_auto" /\ wk_pc = "done"
    /\ Len(wk_tasks) = 2 /\ Len(wk_rows) = 3
    /\ wk_rows[1].status = "ok" /\ wk_rows[2].status = "failed"
    /\ wk_rows[3].stage = 2
    /\ Len(wk_results) = 1
    /\ C34_ReportReached

\* the stage-2 loop is at its head with a task left and the flag set
C38_StoppedEarly ==
    /\ wk_pc = "s2_check" /\ wk_s2idx <= Len(wk_s2tasks)
    /\ wk_should_stop

\* _save_report and the stage_completed emission after it were reached
C38_Reported ==
    \E a \in 1..Len(wk_actions) : wk_actions[a].kind = "report"

\* every task the loop went over has its column in the aggregator
C38_Recorded ==
    \A i \in 1..(wk_s2idx - 1) :
        LET folder_key == FolderKey(wk_s2tasks[i].task.folder_rel_path)
        IN  /\ folder_key \in DOMAIN wk_report
            /\ \E col \in DOMAIN wk_report[folder_key] :
                  wk_report[folder_key][col] \in
                      {DirectLink(wk_s2tasks[i].task), UploadFailed}

\* the step taken from the head of the loop when the flag is set
C38_StopReturns ==
    C38_StoppedEarly =>
        /\ wk_pc' = "done"
        /\ wk_actions' = wk_actions
        /\ wk_report' = wk_report
        /\ ~C38_Reported'
        /\ C38_Recorded'

\* C38: a Stage 2 or manual Stage 2 run stopped before its last task
\* returns from the loop without saving the report: neither report_saved
\* nor stage_completed of the stage is emitted in that run, and the
\* aggregator keeps the columns of the tasks already processed.
C38_NoReportWhenStopped ==
    /\ [][C38_StopReturns]_vars
    /\ [](C38_Reported => wk_s2idx > Len(wk_s2tasks))

\* C38 witness: the run ended at the head of the loop with the flag set,
\* one task processed with its link recorded, one task left, no report
C38_Witness ==
    /\ wk_pc = "done" /\ wk_should_stop
    /\ Len(wk_s2tasks) = 2 /\ wk_s2idx = 2
    /\ Len(SelectSeq(wk_begun, LAMBDA b : b.stage = 2)) = 1
    /\ \E folder_key \in DOMAIN wk_report :
          wk_report[folder_key][ImageCol(1)] = DirectLink(wk_s2tasks[1].task)
    /\ ~C38_Reported


-----------------------------------------------------------------------------
(***************************************************************************)
(* ImageProcessor.fit_text and the bottom caption of process_image.        *)
(***************************************************************************)

\* Largest bottom_size argument and largest caption band explored.
MaxBottomSize == 24
MaxAreaH == 44

\* size -= 5
FitStep == 5

\* while size > 10
FitFloor == 10

\* start_size = int(bottom_size) if bottom_size > 0 else int(area_h * 0.6)
StartSize(bottom_size, area_h) ==
    IF bottom_size > 0 THEN bottom_size ELSE (area_h * 6) \div 10

\* while size > 10
KeepsTrying(size) == size > FitFloor

FtInit ==
    /\ CoIdle /\ RsIdle
    /\ GuiIdle /\ PiIdle /\ SoIdle /\ CcIdle /\ WfIdle /\ PwIdle /\ WkIdle /\ DrIdle
    /\ VrIdle /\ CfIdle /\ CsIdle /\ UpIdle /\ UcIdle /\ DlIdle /\ GlIdle /\ UsIdle
    /\ ft_pc = "start"
    /\ ft_bottom_size \in 0..MaxBottomSize
    /\ ft_area_h \in 0..MaxAreaH
    /\ ft_font_exists \in BOOLEAN
    /\ ft_size = 0
    /\ ft_tried = <<>>
    /\ ft_font = 0
    /\ ft_lines = "none"
    /\ ft_drawn = "nothing"

\* fit_text returns
FitReturn(font, lines) ==
    /\ ft_font' = font
    /\ ft_lines' = lines
    /\ ft_pc' = "draw"

\* process_image calls fit_text: without a font file it returns at once
FitBegin ==
    /\ ft_pc = "start"
    /\ ft_size' = StartSize(ft_bottom_size, ft_area_h)
    /\ IF ~ft_font_exists
       THEN FitReturn(0, "unwrapped")
       ELSE ft_pc' = "fit" /\ UNCHANGED <<ft_font, ft_lines>>
    /\ UNCHANGED <<ft_bottom_size, ft_area_h, ft_font_exists, ft_tried, ft_drawn>>
    /\ UNCHANGED notFt

\* one turn of the while loop: the font fails to load, or the wrapped block
\* is measured and fits the band or is too tall
FitTry ==
    /\ ft_pc = "fit"
    /\ IF KeepsTrying(ft_size)
       THEN \E outcome \in {"load_fails", "fits", "too_tall"} :
              /\ ft_tried' = Append(ft_tried, [size |-> ft_size, outcome |-> outcome])
              /\ IF outcome = "fits"
                 THEN FitReturn(ft_size, "wrapped") /\ UNCHANGED ft_size
                 ELSE /\ ft_size' = ft_size - FitStep
                      /\ UNCHANGED <<ft_pc, ft_font, ft_lines>>
       ELSE /\ FitReturn(0, "unwrapped")
            /\ UNCHANGED <<ft_size, ft_tried>>
    /\ UNCHANGED <<ft_bottom_size, ft_area_h, ft_font_exists, ft_drawn>>
    /\ UNCHANGED notFt

\* if font_bot: the returned lines are drawn
DrawBottom ==
    /\ ft_pc = "draw"
    /\ ft_drawn' = IF ft_font # 0 THEN ft_lines ELSE "nothing"
    /\ ft_pc' = "done"
    /\ UNCHANGED <<ft_bottom_size, ft_area_h, ft_font_exists, ft_size, ft_tried,
                   ft_font, ft_lines>>
    /\ UNCHANGED notFt

FtNext == FitBegin \/ FitTry \/ DrawBottom

SpecFit == FtInit /\ [][FtNext]_vars

\* the sizes tried are start, start - 5, ..., none below 10, and the search
\* takes at most start/5 + 1 turns
C35_Descends ==
    /\ \A i \in 1..Len(ft_tried) :
          /\ ft_tried[i].size = StartSize(ft_bottom_size, ft_area_h) - 5 * (i - 1)
          /\ ft_tried[i].size >= 10
    /\ Len(ft_tried) <= StartSize(ft_bottom_size, ft_area_h) \div 5 + 1

\* the size returned is the largest tried size that fits
C35_LargestFit ==
    ft_pc \in {"draw", "done"} =>
        /\ ft_font # 0 =>
              /\ ft_tried # <<>>
              /\ ft_tried[Len(ft_tried)] = [size |-> ft_font, outcome |-> "fits"]
              /\ \A i \in 1..(Len(ft_tried) - 1) : ft_tried[i].outcome # "fits"
        /\ ft_font = 0 => \A i \in 1..Len(ft_tried) : ft_tried[i].outcome # "fits"

\* C35: the search starts at the explicit size or 60% of the band height,
\* goes down by 5 while the block is too tall, tries no size below 10, ends
\* for every start size and returns the largest tried size that fits; if no
\* size fits the caption is still drawn, as the unwrapped text.
C35_FitOrUnwrapped ==
    /\ C35_Descends
    /\ C35_LargestFit
    /\ ft_pc = "done" =>
          ft_drawn = (IF ft_font # 0 THEN "wrapped" ELSE "unwrapped")

\* the same, with nothing drawn when no size fits
C35_FitOrNothing ==
    /\ C35_Descends
    /\ C35_LargestFit
    /\ ft_pc = "done" =>
          ft_drawn = (IF ft_font # 0 THEN "wrapped" ELSE "nothing")

\* every tried size was too tall and no caption was drawn
C35_NothingFit ==
    /\ ft_pc = "done" /\ ft_font_exists /\ Len(ft_tried) = 3
    /\ \A i \in 1..3 : ft_tried[i].outcome = "too_tall"
    /\ ft_drawn = "nothing"


-----------------------------------------------------------------------------
(***************************************************************************)
(* WorkerThread.run_stage1: building all_tasks from the groups of the task *)
(* file and the images under the source root, then the Stage 1 loop.       *)
(***************************************************************************)

\* Largest number of distinct Folder Name values and of image files explored.
MaxFolderNames == 3
MaxSourceImages == 2

\* file-name stems of the images: rule A, rule B, any other
ImageStems == {"a", "b", "c"}

CoInit ==
    /\ RsIdle
    /\ GuiIdle /\ PiIdle /\ SoIdle /\ CcIdle /\ WfIdle /\ PwIdle /\ WkIdle /\ DrIdle
    /\ VrIdle /\ CfIdle /\ CsIdle /\ UpIdle /\ UcIdle /\ DlIdle /\ GlIdle /\ UsIdle
    /\ FtIdle
    /\ co_pc = "collect"
    /\ co_groups \in 0..MaxFolderNames
    /\ \E n \in 0..MaxSourceImages : co_images \in [1..n -> ImageStems]
    /\ co_group = 0
    /\ co_all_tasks = <<>>
    /\ co_idx = 0
    /\ co_sent = <<>>

\* _collect_images(source_path): every image under the root, whatever the group
CollectImages(images) == [i \in 1..Len(images) |-> i]

\* folder_images = self._collect_images(source_path), inside the loop over
\* the groups: the same list for every group
CollectedForGroup(group, images) == CollectImages(images)

\* one turn of "for folder_name, group_df in grouped": a task for each image
\* _collect_images returns
CollectGroup ==
    /\ co_pc = "collect"
    /\ co_group < co_groups
    /\ co_group' = co_group + 1
    /\ co_all_tasks' = co_all_tasks \o CollectedForGroup(co_group + 1, co_images)
    /\ UNCHANGED <<co_pc, co_groups, co_images, co_idx, co_sent>>
    /\ UNCHANGED notCo

\* after the groups: "if not all_tasks" ends the run, else the loop begins
CollectEnd ==
    /\ co_pc = "collect"
    /\ co_group = co_groups
    /\ IF co_all_tasks = <<>>
       THEN co_pc' = "done" /\ UNCHANGED co_idx
       ELSE co_pc' = "loop" /\ co_idx' = 1
    /\ UNCHANGED <<co_groups, co_images, co_group, co_all_tasks, co_sent>>
    /\ UNCHANGED notCo

\* the body of the Stage 1 loop for one task: rule A and rule B tasks are
\* not sent to the backend, any other is
Stage1Task ==
    /\ co_pc = "loop"
    /\ co_idx <= Len(co_all_tasks)
    /\ LET image == co_all_tasks[co_idx]
       IN  co_sent' = IF co_images[image] \in {"a", "b"}
                      THEN co_sent ELSE Append(co_sent, image)
    /\ co_idx' = co_idx + 1
    /\ UNCHANGED <<co_pc, co_groups, co_images, co_group, co_all_tasks>>
    /\ UNCHANGED notCo

\* the loop is over
Stage1End ==
    /\ co_pc = "loop"
    /\ co_idx > Len(co_all_tasks)
    /\ co_pc' = "done"
    /\ UNCHANGED <<co_groups, co_images, co_group, co_all_tasks, co_idx, co_sent>>
    /\ UNCHANGED notCo

CoNext == CollectGroup \/ CollectEnd \/ Stage1Task \/ Stage1End

SpecCollect == CoInit /\ [][CoNext]_vars

C36_Tasks(image) == {t \in 1..Len(co_all_tasks) : co_all_tasks[t] = image}

C36_Sends(image) == {t \in 1..Len(co_sent) : co_sent[t] = image}

\* C36: in a Stage 1 run each image file found under the source root is
\* exactly one task and is sent to the generation backend at most once,
\* whatever the number of distinct Folder Name values in the task file.
C36_OneTaskPerImage ==
    /\ (co_pc \in {"loop", "done"} /\ co_groups >= 1) =>
          \A image \in 1..Len(co_images) : Cardinality(C36_Tasks(image)) = 1
    /\ \A image \in 1..Len(co_images) : Cardinality(C36_Sends(image)) <= 1

\* what the loops do: one task per image and per Folder Name value
C36_OneTaskPerImageAndGroup ==
    /\ co_pc \in {"loop", "done"} =>
          \A image \in 1..Len(co_images) :
              Cardinality(C36_Tasks(image)) = co_groups
    /\ \A image \in 1..Len(co_images) : Cardinality(C36_Sends(image)) <= co_groups

\* an image sent to the backend twice
C36_SentTwice ==
    co_pc = "done" /\ co_groups = 2 /\ co_images = <<"c">> /\ co_sent = <<1, 1>>


-----------------------------------------------------------------------------
(***************************************************************************)
(* MainWindow._save_comfyui_url and init_ui: the backend address written   *)
(* to config.ini and put back into the URL field at the next start.        *)
(***************************************************************************)

\* Largest explicit port explored, besides the backend's usual 8188.
MaxPort == 444

\* a URL as urlparse reads it; port 0 and host "" stand for None
Url(scheme, host, port) == [scheme |-> scheme, host |-> host, port |-> port]

NoUrl == Url("", "", 0)

NoConfig == [Host |-> "", DefaultPort |-> 0]

UrlHosts == {"", "example.org"}

UrlPorts == {0, 8188} \cup (442..MaxPort)

\* parsed.hostname or "127.0.0.1"
HostOf(url) == IF url.host = "" THEN "127.0.0.1" ELSE url.host

\* parsed.port or (443 if parsed.scheme == "https" else 8188)
PortOf(url) ==
    IF url.port # 0 THEN url.port
    ELSE IF url.scheme = "https" THEN 443 ELSE 8188

\* scheme = "https" if saved_port in ("443",) else "http"
SchemeOf(saved_port) == IF saved_port = 443 THEN "https" ELSE "http"

RsInit ==
    /\ GuiIdle /\ PiIdle /\ SoIdle /\ CcIdle /\ WfIdle /\ PwIdle /\ WkIdle /\ DrIdle
    /\ VrIdle /\ CfIdle /\ CsIdle /\ UpIdle /\ UcIdle /\ DlIdle /\ GlIdle /\ UsIdle
    /\ FtIdle /\ CoIdle
    /\ rs_pc = "edit"
    /\ \E scheme \in {"http", "https"}, host \in UrlHosts, port \in UrlPorts :
          rs_url = Url(scheme, host, port)
    /\ rs_test_ok = FALSE
    /\ rs_config \in {NoConfig, [Host |-> "old.example", DefaultPort |-> 8188]}
    /\ rs_field = NoUrl

\* the connection test of the URL in the field ends
TestFinished ==
    /\ rs_pc = "edit"
    /\ rs_test_ok' \in BOOLEAN
    /\ rs_pc' = "tested"
    /\ UNCHANGED <<rs_url, rs_config, rs_field>>
    /\ UNCHANGED notRs

\* _save_comfyui_url: refused without a successful test of this URL, else
\* Host and DefaultPort are written
SaveUrl ==
    /\ rs_pc = "tested"
    /\ IF ~rs_test_ok
       THEN UNCHANGED rs_config
       ELSE rs_config' = [Host |-> HostOf(rs_url), DefaultPort |-> PortOf(rs_url)]
    /\ rs_pc' = "saved"
    /\ UNCHANGED <<rs_url, rs_test_ok, rs_field>>
    /\ UNCHANGED notRs

\* init_ui at the next start: the field is filled from Host and DefaultPort
RestoreUrl ==
    /\ rs_pc = "saved"
    /\ rs_field' = IF rs_config.Host # "" /\ rs_config.DefaultPort # 0
                   THEN Url(SchemeOf(rs_config.DefaultPort), rs_config.Host,
                            rs_config.DefaultPort)
                   ELSE NoUrl
    /\ rs_pc' = "restored"
    /\ UNCHANGED <<rs_url, rs_test_ok, rs_config>>
    /\ UNCHANGED notRs

RsNext == TestFinished \/ SaveUrl \/ RestoreUrl

SpecRestore == RsInit /\ [][RsNext]_vars

\* the URL that was tested and saved, with its defaults filled in
C37_Saved == Url(rs_url.scheme, HostOf(rs_url), PortOf(rs_url))

\* C37: a backend URL that passed the test and was saved is in the URL field
\* again at the next start with the same scheme, host and port, for every
\* scheme and port.
C37_RestoredUnchanged ==
    (rs_pc = "restored" /\ rs_test_ok) => rs_field = C37_Saved

\* host and port come back; the scheme comes back only where https goes
\* with port 443 and http with any other port
C37_RestoredUpToScheme ==
    (rs_pc = "restored" /\ rs_test_ok) =>
        /\ rs_field.host = C37_Saved.host
        /\ rs_field.port = C37_Saved.port
        /\ rs_field.scheme = C37_Saved.scheme
              <=> (C37_Saved.scheme = "https" <=> C37_Saved.port = 443)

\* an https URL on another port came back as http
C37_SchemeLost ==
    /\ rs_pc = "restored" /\ rs_test_ok
    /\ rs_url = Url("https", "example.org", 8188)
    /\ rs_field = Url("http", "example.org", 8188)


\* ------------------------------------------------------------------------
\* links and widget values in the graph conversion (SpecPrepare).
\* ------------------------------------------------------------------------
\* a graph was converted, node yi is enabled, and its input k names a link
\* of the link table whose source node is not disabled
C40_LinkSet(yi, k) ==
    /\ pw_calls > 0
    /\ pw_template.shape = "graph"
    /\ pw_template.nodes[yi].mode # 4
    /\ LET link_id == pw_template.nodes[yi].inputs[k].link
           links_map == LinksMap(pw_template.links)
       IN  /\ link_id # 0 /\ link_id \in DOMAIN links_map
           /\ links_map[link_id][1] \notin DisabledNodes(pw_template.nodes)

\* the reference step 1 stores for input k of node yi
C40_Reference(yi, k) ==
    LET at == LinksMap(pw_template.links)[pw_template.nodes[yi].inputs[k].link]
    IN  Ref(at[1], at[2])

\* steps 3 and 4 set or remove the input name on this node
C40_FixupTouches(node, name) ==
    \/ C7_FixupNamed(node, name)
    \/ /\ node.id = 142 /\ node.type = "LoadImageOutput"
       /\ name \in {"refresh", "upload_to_output"}

\* the input names step 2 may fill from the node's widget values
C40_WidgetNames(node) ==
    {ParamNames(node.type)[i] :
        i \in 1..(IF Len(node.widgets_values) < Len(ParamNames(node.type))
                  THEN Len(node.widgets_values)
                  ELSE Len(ParamNames(node.type)))}

\* every key of a flattened node comes from an input of the node, from a
\* widget value within the parameter list, or from a fixup
C40_BeyondListDropped ==
    (pw_calls > 0 /\ pw_template.shape = "graph") =>
        \A yi \in 1..Len(pw_template.nodes) :
            pw_template.nodes[yi].mode # 4 =>
                LET node == pw_template.nodes[yi]
                    inputs == pw_out.wf[StrOf(node.id)].inputs
                IN  \A name \in DOMAIN inputs :
                        \/ \E k \in 1..Len(node.inputs) :
                              node.inputs[k].name = name /\ C40_LinkSet(yi, k)
                        \/ name \in C40_WidgetNames(node)
                        \/ C40_FixupTouches(node, name)

\* C40 as stated: in the graph conversion every input name set from a link
\* holds its [source node id, source slot] reference in the result, no
\* widget value mapped to the name replaces it, and widget values beyond
\* the parameter list of the operation type are dropped.
C40_LinkAlwaysKept ==
    /\ C40_BeyondListDropped
    /\ pw_template.shape = "graph" =>
          \A yi \in 1..Len(pw_template.nodes) :
              \A k \in 1..Len(pw_template.nodes[yi].inputs) :
                  C40_LinkSet(yi, k) =>
                      LET node == pw_template.nodes[yi]
                          inputs == pw_out.wf[StrOf(node.id)].inputs
                      IN  /\ node.inputs[k].name \in DOMAIN inputs
                          /\ inputs[node.inputs[k].name] = C40_Reference(yi, k)

\* C40 amended: an input name set from a link holds its reference in the
\* result unless a fixup of steps 3 and 4 sets or removes that name on the
\* node (image on LoadImage 8; image, refresh and upload_to_output on
\* LoadImageOutput 142; text and the six service fields on
\* DeepTranslatorTextNode 20 and 190); the positional widget values of
\* step 2 never replace it, and widget values beyond the parameter list
\* are dropped.
C40_LinkKeptUnlessFixup ==
    /\ C40_BeyondListDropped
    /\ pw_template.shape = "graph" =>
          \A yi \in 1..Len(pw_template.nodes) :
              \A k \in 1..Len(pw_template.nodes[yi].inputs) :
                  (/\ C40_LinkSet(yi, k)
                   /\ ~C40_FixupTouches(pw_template.nodes[yi],
                                        pw_template.nodes[yi].inputs[k].name)) =>
                      LET node == pw_template.nodes[yi]
                          inputs == pw_out.wf[StrOf(node.id)].inputs
                      IN  /\ node.inputs[k].name \in DOMAIN inputs
                          /\ inputs[node.inputs[k].name] = C40_Reference(yi, k)

\* C40 witness: CLIPTextEncode 6 has its text input linked from the enabled
\* KSampler 3 and a widget value for text; the result holds the reference,
\* and the seven widget values of the KSampler, a type without a parameter
\* list, are gone
C40_Witness ==
    /\ pw_calls > 0 /\ pw_template.shape = "graph"
    /\ pw_template.nodes[1].id = 3 /\ pw_template.nodes[1].mode = 0
    /\ Len(pw_template.nodes[1].widgets_values) = 7
    /\ pw_template.nodes[2].id = 6 /\ pw_template.nodes[2].mode = 0
    /\ pw_template.nodes[2].widgets_values = <<Str("clip text")>>
    /\ Len(pw_template.nodes[2].inputs) = 1
    /\ pw_template.nodes[2].inputs[1].name = "text"
    /\ C40_LinkSet(2, 1)
    /\ pw_out.wf["6"].inputs["text"] = Ref("3", 0)
    /\ pw_out.wf["3"].inputs = NoInputs

\* DeepTranslatorTextNode 20 has its text input linked from an enabled
\* node: step 2 left the reference alone, step 4 put the index-6 widget
\* value in its place
C40_WidgetOverLink ==
    /\ pw_calls > 0 /\ pw_template.shape = "graph" /\ pw_prompt = ""
    /\ pw_template.nodes[2].id = 20 /\ pw_template.nodes[2].mode = 0
    /\ Len(pw_template.nodes[2].inputs) = 1
    /\ pw_template.nodes[2].inputs[1].name = "text"
    /\ C40_LinkSet(2, 1)
    /\ pw_out.wf["20"].inputs["text"] = Str("template text")

====
